---- MODULE Spec2Model ----
(***************************************************************************)
(* Model of the DataJud jurimetrics scripts: the Elasticsearch query       *)
(* builder (DataJudAPI.construir_query, in its two versions), the date     *)
(* sanitizer (JurimetriaRCESaudeFinal._tratar_data) and the classifier of  *)
(* the returned records (coletar_processos_detalhados).                    *)
(*                                                                         *)
(* Python values are tagged records: None, PInt, PFloat, PBool, PStr, each  *)
(* with a field of its own for the payload.                                *)
(* A Python string is a sequence of one-character strings, so that         *)
(* substring tests and parsing work on the characters.  JSON objects are   *)
(* records (functions from key to value).                                  *)
(***************************************************************************)
EXTENDS Integers, Sequences, FiniteSets, TLC

VARIABLES
    modulo,     \* which script's DataJudAPI is used: "datajud" or "datajud_2"
    filtros,    \* the arguments of the construir_query call
    query,      \* the request returned by construir_query, or NaoChamado
    data_str,   \* the argument of the _tratar_data call
    data_ret,   \* outcome of _tratar_data(data_str), or NaoChamado
    data_ret2,  \* outcome of _tratar_data applied to an accepted result
    data_origem, \* how the argument was written: its form and calendar fields
    hits,       \* resultado['hits']['hits'] of coletar_processos_detalhados
    cpc,        \* where the loop over hits is: "hit" (before a hit), "mov" (in
                \* its movements), "fim" (returned), "erro" (an exception left
                \* the function) or "parado" (not in use)
    hit_i,      \* index of the hit being classified
    mov_i,      \* index of the next movement of that hit
    processo_base,          \* the record being built for the hit
    tem_tutela,
    tem_acordo,
    tem_deferimento,
    tem_indeferimento,
    tem_sentenca,
    movimentos_tutela,
    movimentos_acordo,
    data_primeira_tutela,
    data_primeiro_acordo,
    processos,  \* the records appended so far
    df,         \* the DataFrame returned, or NaoChamado
    dados_coletados,    \* self.dados_coletados['processos_detalhados'], or NaoChamado
    hash_seed,  \* the seed of the interpreter's string hash, drawn once per process
    coletas,    \* the calls of coletar_processos_detalhados that are over: the
                \* response each one got and what it gave
    rpc,        \* position in _fazer_requisicao: "parado", "tenta", "dorme", "fim"
    tentativa,  \* the loop variable of _fazer_requisicao
    esperas,    \* the calls of time.sleep that are over
    historico,  \* what each requests.post of the call gave, in order
    bpc,        \* position in buscar_processos of jurimetria_datajud_2:
                \* "parado", "inicio", "pedido", "fallback", "fim"
    tribunal,   \* its tribunal argument
    pedidos,    \* the bodies of the requests it has posted, in order
    respostas,  \* what each of these requests gave
    retorno,    \* what it returned or that it raised, or NaoChamado
    json_erro_de_requests,  \* whether the JSON error of the installed requests
                            \* is a RequestException
    metricas,   \* outcome of calcular_metricas_completas(df), or NaoChamado
    resultado,  \* what _fazer_requisicao returned: the response handed to the
                \* classifier and to extrair_informacoes
    extraido    \* outcome of extrair_informacoes(resultado), or NaoChamado

vars == <<modulo, filtros, query, data_str, data_ret, data_ret2, data_origem,
          hits, cpc, hit_i, mov_i, processo_base, tem_tutela, tem_acordo, tem_deferimento,
          tem_indeferimento, tem_sentenca, movimentos_tutela, movimentos_acordo,
          data_primeira_tutela, data_primeiro_acordo, processos, df,
          dados_coletados, hash_seed, coletas, rpc, tentativa, esperas, historico,
          bpc, tribunal, pedidos, respostas, retorno, json_erro_de_requests,
          metricas, resultado, extraido>>
qvars == <<modulo, filtros, query>>
dvars == <<data_str, data_ret, data_ret2, data_origem>>
flagvars == <<tem_tutela, tem_acordo, tem_deferimento, tem_indeferimento, tem_sentenca,
              movimentos_tutela, movimentos_acordo,
              data_primeira_tutela, data_primeiro_acordo>>
cvars == <<hits, cpc, hit_i, mov_i, processo_base, flagvars, processos, df,
           dados_coletados>>
rvars == <<resultado, extraido>>
wvars == <<rpc, tentativa, esperas, historico>>
bvars == <<bpc, tribunal, pedidos, respostas, retorno, json_erro_de_requests>>
mvars == <<metricas>>
xvars == <<wvars, bvars, mvars>>
\* The variables of the components that the builder, the sanitizer and the
\* classifier loop do not touch.
ovars == <<rvars, coletas, hash_seed, xvars>>

-----------------------------------------------------------------------------
(* Python values *)

None == [t |-> "none"]
PInt(n) == [t |-> "int", i |-> n]
PFloat(n) == [t |-> "float", f |-> n]
PBool(b) == [t |-> "bool", b |-> b]
PStr(s) == [t |-> "str", s |-> s]
NaoChamado == [t |-> "not_called"]
Omitido == [t |-> "omitted"]

\* Python truthiness, as used by "if x:" and "not x".
Truthy(x) ==
    CASE x.t = "none" -> FALSE
      [] x.t = "int" -> x.i # 0
      [] x.t = "float" -> x.f # 0
      [] x.t = "bool" -> x.b
      [] x.t = "str" -> Len(x.s) # 0

DigitChars == <<"0", "1", "2", "3", "4", "5", "6", "7", "8", "9">>
IsDigit(c) == \E d \in 1..10 : DigitChars[d] = c
DigitVal(c) == (CHOOSE d \in 1..10 : DigitChars[d] = c) - 1

\* Decimal digits of a natural number.
RECURSIVE ToDigits(_)
ToDigits(n) ==
    IF n < 10 THEN <<DigitChars[n + 1]>>
    ELSE ToDigits(n \div 10) \o <<DigitChars[(n % 10) + 1]>>

\* Python str(x) for an int or a str.
py_str(x) == IF x.t = "str" THEN x ELSE PStr(ToDigits(x.i))

\* Python "t in s" for two strings (character sequences).
Contains(s, tok) ==
    \E i \in 1..(Len(s) - Len(tok) + 1) : SubSeq(s, i, i + Len(tok) - 1) = tok

-----------------------------------------------------------------------------
(* Query builder *)

DefaultTamanho == 10
LimiteTamanho == 100

\* The value of the tamanho parameter: the default when the caller omits it.
Tamanho(a) == IF a.tamanho = Omitido THEN DefaultTamanho ELSE a.tamanho.i

Min(a, b) == IF a <= b THEN a ELSE b

EmptyObj == << >>
MatchAll == [match_all |-> EmptyObj]

\* Variant: the bounds are written under the keys gt / lt.
DateRange_gt(a) ==
    IF Truthy(a.data_inicio) /\ Truthy(a.data_fim)
        THEN [gt |-> a.data_inicio, lt |-> a.data_fim]
    ELSE IF Truthy(a.data_inicio) THEN [gt |-> a.data_inicio]
    ELSE IF Truthy(a.data_fim) THEN [lt |-> a.data_fim]
    ELSE EmptyObj

\* Variant: both bounds are always written.
DateRange_ambos(a) == [gte |-> a.data_inicio, lte |-> a.data_fim]

\* date_range = {}; gte / lte are added for a truthy data_inicio / data_fim.
DateRange(a) ==
    IF Truthy(a.data_inicio) /\ Truthy(a.data_fim)
        THEN [gte |-> a.data_inicio, lte |-> a.data_fim]
    ELSE IF Truthy(a.data_inicio) THEN [gte |-> a.data_inicio]
    ELSE IF Truthy(a.data_fim) THEN [lte |-> a.data_fim]
    ELSE EmptyObj

\* A JSON object with the single key k.
Obj1(k, val) == [x \in {k} |-> val]

\* jurimetria_datajud.py: exact-term clauses appended to must, size unclamped.
Clauses_1(a) ==
    (IF Truthy(a.classe_codigo)
        THEN <<[term |-> Obj1("classe.codigo", a.classe_codigo)]>>
        ELSE << >>)
    \o (IF Truthy(a.assunto_codigo)
        THEN <<[nested |-> [path |-> "assuntos",
                            query |-> [term |-> Obj1("assuntos.codigo", a.assunto_codigo)]]]>>
        ELSE << >>)
    \o (IF Truthy(a.movimento_codigo)
        THEN <<[nested |-> [path |-> "movimentos",
                            query |-> [term |-> Obj1("movimentos.codigo", a.movimento_codigo)]]]>>
        ELSE << >>)
    \o (IF Truthy(a.data_inicio) \/ Truthy(a.data_fim)
        THEN <<[range |-> Obj1("dataAjuizamento", DateRange(a))]>>
        ELSE << >>)

construir_query_1(a) ==
    LET must == Clauses_1(a) IN
    [size |-> Tamanho(a),
     query |-> IF must = << >> THEN MatchAll ELSE [bool |-> [must |-> must]]]

\* jurimetria_datajud_2.py: schema-tolerant OR groups collected in filtros.
FiltroClasse_2(c) ==
    [bool |-> [should |-> <<[term |-> Obj1("classe.codigo", py_str(c))],
                            [term |-> Obj1("classe.codigo", c)],
                            [match |-> Obj1("classe.codigo", c)]>>,
               minimum_should_match |-> 1]]

FiltroAssunto_2(c) ==
    [bool |-> [should |-> <<[nested |-> [path |-> "assuntos",
                                         query |-> [bool |-> [should |->
                                             <<[term |-> Obj1("assuntos.codigo", py_str(c))],
                                               [term |-> Obj1("assuntos.codigo", c)]>>]]]],
                            [term |-> Obj1("assunto.codigo", py_str(c))],
                            [term |-> Obj1("assunto.codigo", c)]>>,
               minimum_should_match |-> 1]]

FiltroMovimento_2(c) ==
    [bool |-> [should |-> <<[nested |-> [path |-> "movimentos",
                                         query |-> [bool |-> [should |->
                                             <<[term |-> Obj1("movimentos.codigo", py_str(c))],
                                               [term |-> Obj1("movimentos.codigo", c)]>>]]]]>>,
               minimum_should_match |-> 1]]

FiltroData_2(dr) ==
    [bool |-> [should |-> <<[range |-> Obj1("dataAjuizamento", dr)],
                            [range |-> Obj1("dataHoraUltimaAtualizacao", dr)],
                            [range |-> Obj1("@timestamp", dr)]>>,
               minimum_should_match |-> 1]]

Clauses_2(a) ==
    (IF Truthy(a.classe_codigo) THEN <<FiltroClasse_2(a.classe_codigo)>> ELSE << >>)
    \o (IF Truthy(a.assunto_codigo) THEN <<FiltroAssunto_2(a.assunto_codigo)>> ELSE << >>)
    \o (IF Truthy(a.movimento_codigo) THEN <<FiltroMovimento_2(a.movimento_codigo)>> ELSE << >>)
    \o (IF Truthy(a.data_inicio) \/ Truthy(a.data_fim)
        THEN <<FiltroData_2(DateRange(a))>> ELSE << >>)

\* Variant: the else branch is missing, an empty must list is left in place.
construir_query_2_sem_match_all(a) ==
    [size |-> Min(Tamanho(a), LimiteTamanho),
     query |-> [bool |-> [must |-> Clauses_2(a)]]]

construir_query_2(a) ==
    LET filtros_ == Clauses_2(a) IN
    [size |-> Min(Tamanho(a), LimiteTamanho),
     query |-> IF filtros_ # << >> THEN [bool |-> [must |-> filtros_]] ELSE MatchAll]

construir_query(m, a) ==
    IF m = "datajud" THEN construir_query_1(a) ELSE construir_query_2(a)

-----------------------------------------------------------------------------
(* Date strings *)

RECURSIVE Pad(_, _)
\* n in decimal, zero-padded on the left to width w (Python f"{n:0{w}d}").
Pad(n, w) == IF w <= 1 THEN ToDigits(n) ELSE
             IF Len(ToDigits(n)) >= w THEN ToDigits(n) ELSE <<"0">> \o Pad(n, w - 1)

\* "YYYY-MM-DD", the form main() reads from the user.
IsoDate(y, m, d) == Pad(y, 4) \o <<"-">> \o Pad(m, 2) \o <<"-">> \o Pad(d, 2)
\* "HH:MM:SS"
IsoTime(h, mi, sec) == Pad(h, 2) \o <<":">> \o Pad(mi, 2) \o <<":">> \o Pad(sec, 2)
\* main(): f"{data_inicio}T00:00:00.000Z" and f"{data_fim}T23:59:59.999Z"
InicioDoDia(date) == date \o <<"T">> \o IsoTime(0, 0, 0) \o <<".", "0", "0", "0", "Z">>
FimDoDia(date) == date \o <<"T">> \o IsoTime(23, 59, 59) \o <<".", "9", "9", "9", "Z">>
\* "YYYYMMDDHHMMSS", the compact form some DataJud indices carry.
Compact(y, m, d, h, mi, sec) ==
    Pad(y, 4) \o Pad(m, 2) \o Pad(d, 2) \o Pad(h, 2) \o Pad(mi, 2) \o Pad(sec, 2)

AllDigits(s) == \A i \in 1..Len(s) : IsDigit(s[i])

RECURSIVE Num(_)
\* The number a string of digits denotes.
Num(s) == IF Len(s) = 0 THEN 0
          ELSE 10 * Num(SubSeq(s, 1, Len(s) - 1)) + DigitVal(s[Len(s)])

IsLeap(y) == (y % 4 = 0 /\ y % 100 # 0) \/ y % 400 = 0
DaysInMonth(y, m) ==
    IF m = 2 THEN (IF IsLeap(y) THEN 29 ELSE 28)
    ELSE IF m \in {4, 6, 9, 11} THEN 30 ELSE 31

NaT == [t |-> "NaT"]
Timestamp(y, m, d, h, mi, sec) ==
    [t |-> "ts", year |-> y, month |-> m, day |-> d, hour |-> h, minute |-> mi, second |-> sec]

\* Timestamp bounds of pandas (datetime64[ns]): 1677-09-21 .. 2262-04-11.  A date
\* outside them is NaT under errors='coerce'.  Whole years are used here: the
\* partial years 1677 and 2262 are outside [1990, 2030] either way.
TsYears == 1677..2262

Fields(y, m, d, h, mi, sec) ==
    IF /\ m \in 1..12
       /\ d \in 1..DaysInMonth(y, m)
       /\ h \in 0..23 /\ mi \in 0..59 /\ sec \in 0..59
       /\ y \in TsYears
    THEN Timestamp(y, m, d, h, mi, sec)
    ELSE NaT

\* What may follow the seconds: nothing, "Z", or a fraction of 1..9 digits and
\* an optional "Z".
TailOk(tl) ==
    \/ tl = << >>
    \/ tl = <<"Z">>
    \/ /\ Len(tl) >= 2
       /\ tl[1] = "."
       /\ LET frac == IF tl[Len(tl)] = "Z" THEN SubSeq(tl, 2, Len(tl) - 1)
                      ELSE SubSeq(tl, 2, Len(tl))
          IN Len(frac) \in 1..9 /\ AllDigits(frac)

\* pd.to_datetime(s, errors='coerce') for a string s, on the formats the
\* search API produces: ISO-8601 extended ("YYYY-MM-DD", optionally followed by
\* "THH:MM:SS", a fraction and "Z") and the compact "YYYYMMDDHHMMSS"; any other
\* string of the model's inputs does not parse and is NaT.
to_datetime(s) ==
    LET n == Len(s) IN
    IF n = 14 /\ AllDigits(s) THEN
        Fields(Num(SubSeq(s, 1, 4)), Num(SubSeq(s, 5, 6)), Num(SubSeq(s, 7, 8)),
               Num(SubSeq(s, 9, 10)), Num(SubSeq(s, 11, 12)), Num(SubSeq(s, 13, 14)))
    ELSE IF /\ n >= 10
            /\ AllDigits(SubSeq(s, 1, 4)) /\ s[5] = "-"
            /\ AllDigits(SubSeq(s, 6, 7)) /\ s[8] = "-"
            /\ AllDigits(SubSeq(s, 9, 10))
    THEN LET y == Num(SubSeq(s, 1, 4))
             m == Num(SubSeq(s, 6, 7))
             d == Num(SubSeq(s, 9, 10))
         IN IF n = 10 THEN Fields(y, m, d, 0, 0, 0)
            ELSE IF /\ n >= 19
                    /\ s[11] = "T"
                    /\ AllDigits(SubSeq(s, 12, 13)) /\ s[14] = ":"
                    /\ AllDigits(SubSeq(s, 15, 16)) /\ s[17] = ":"
                    /\ AllDigits(SubSeq(s, 18, 19))
                    /\ TailOk(SubSeq(s, 20, n))
            THEN Fields(y, m, d, Num(SubSeq(s, 12, 13)), Num(SubSeq(s, 15, 16)),
                        Num(SubSeq(s, 18, 19)))
            ELSE NaT
    ELSE NaT

-----------------------------------------------------------------------------
(* Date sanitizer *)

AnoMinimo == 1990
AnoMaximo == 2030

Sentinelas == {<<"2", "2", "6", "3">>, <<"2", "2", "6", "2">>, <<"2", "2", "6", "1">>}

\* The outcome of a call: a returned value, or an exception that escaped.
Return(val) == [exc |-> FALSE, val |-> val]
Raise == [exc |-> TRUE, val |-> None]

\* Variant: the sentinel years are looked for in the year position only.
tratar_data_try_prefixo(data_str_) ==
    IF data_str_.t # "str" THEN Raise
    ELSE IF \E tok \in Sentinelas : Len(data_str_.s) >= 4 /\ SubSeq(data_str_.s, 1, 4) = tok
        THEN Return(None)
    ELSE LET dt == to_datetime(data_str_.s) IN
         IF dt = NaT THEN Return(None)
         ELSE IF dt.year < AnoMinimo \/ dt.year > AnoMaximo THEN Return(None)
         ELSE Return(data_str_)

\* Variant: the lower limit is exclusive.
tratar_data_try_estrito(data_str_) ==
    IF data_str_.t # "str" THEN Raise
    ELSE IF \E tok \in Sentinelas : Contains(data_str_.s, tok) THEN Return(None)
    ELSE LET dt == to_datetime(data_str_.s) IN
         IF dt = NaT THEN Return(None)
         ELSE IF dt.year <= AnoMinimo \/ dt.year > AnoMaximo THEN Return(None)
         ELSE Return(data_str_)

\* Variant: the parsed timestamp is returned in ISO format (dt.isoformat()).
tratar_data_try_reformata(data_str_) ==
    IF data_str_.t # "str" THEN Raise
    ELSE IF \E tok \in Sentinelas : Contains(data_str_.s, tok) THEN Return(None)
    ELSE LET dt == to_datetime(data_str_.s) IN
         IF dt = NaT THEN Return(None)
         ELSE IF dt.year < AnoMinimo \/ dt.year > AnoMaximo THEN Return(None)
         ELSE Return(PStr(IsoDate(dt.year, dt.month, dt.day) \o <<"T">>
                          \o IsoTime(dt.hour, dt.minute, dt.second)))

\* The body of the try block.  "'2263' in data_str" raises TypeError for a
\* number or a boolean (argument is not iterable).
tratar_data_try(data_str_) ==
    IF data_str_.t # "str" THEN Raise
    ELSE IF \E tok \in Sentinelas : Contains(data_str_.s, tok) THEN Return(None)
    ELSE LET dt == to_datetime(data_str_.s) IN
         IF dt = NaT THEN Return(None)
         ELSE IF dt.year < AnoMinimo \/ dt.year > AnoMaximo THEN Return(None)
         ELSE Return(data_str_)

\* Variant: a falsy argument is handed back as it came.
tratar_data_devolve_falsy(data_str_) ==
    IF ~Truthy(data_str_) THEN Return(data_str_)
    ELSE LET r == tratar_data_try(data_str_) IN
         IF r.exc THEN Return(None) ELSE r

\* Variant: no except clause, an exception of the body escapes.
tratar_data_sem_except(data_str_) ==
    IF ~Truthy(data_str_) THEN Return(None)
    ELSE tratar_data_try(data_str_)

\* _tratar_data: the falsy test, then the try block under a bare "except:".
tratar_data(data_str_) ==
    IF ~Truthy(data_str_) THEN Return(None)
    ELSE LET r == tratar_data_try(data_str_) IN
         IF r.exc THEN Return(None) ELSE r

-----------------------------------------------------------------------------
(* Strings: case, order, joining *)

Maiusculas == <<"A", "B", "C", "D", "E", "F", "G", "H", "I", "J", "K", "L", "M",
                "N", "O", "P", "Q", "R", "S", "T", "U", "V", "W", "X", "Y", "Z",
                "Á", "Â", "Ã", "Ç", "É", "Ê", "Í", "Ó", "Ô", "Õ", "Ú">>
Minusculas == <<"a", "b", "c", "d", "e", "f", "g", "h", "i", "j", "k", "l", "m",
                "n", "o", "p", "q", "r", "s", "t", "u", "v", "w", "x", "y", "z",
                "á", "â", "ã", "ç", "é", "ê", "í", "ó", "ô", "õ", "ú">>

LowerChar(c) ==
    IF \E i \in 1..Len(Maiusculas) : Maiusculas[i] = c
    THEN Minusculas[CHOOSE i \in 1..Len(Maiusculas) : Maiusculas[i] = c]
    ELSE c

\* str.lower()
lower(s) == [i \in 1..Len(s) |-> LowerChar(s[i])]

\* Code points of the characters date strings are made of.
Ord(c) ==
    IF IsDigit(c) THEN 48 + DigitVal(c)
    ELSE CASE c = "-" -> 45 [] c = "." -> 46 [] c = ":" -> 58
           [] c = "T" -> 84 [] c = "Z" -> 90 [] OTHER -> 127

RECURSIVE StrLess(_, _)
\* Python a < b on two strings: lexicographic on code points.
StrLess(a, b) ==
    IF Len(b) = 0 THEN FALSE
    ELSE IF Len(a) = 0 THEN TRUE
    ELSE IF a[1] = b[1] THEN StrLess(Tail(a), Tail(b))
    ELSE Ord(a[1]) < Ord(b[1])

RECURSIVE Join(_)
\* '; '.join(parts)
Join(parts) ==
    IF Len(parts) = 0 THEN << >>
    ELSE IF Len(parts) = 1 THEN parts[1]
    ELSE parts[1] \o <<";", " ">> \o Join(Tail(parts))

\* f"{x}" / str(x) of a JSON scalar
Fmt(x) ==
    CASE x.t = "str" -> x.s
      [] x.t = "int" -> ToDigits(x.i)
      [] x.t = "none" -> <<"N", "o", "n", "e">>
      [] OTHER -> <<"?">>

-----------------------------------------------------------------------------
(* Timestamp arithmetic *)

RECURSIVE DaysBeforeYear(_)
\* Days from 1990-01-01 to the first day of year y (y >= 1990).
DaysBeforeYear(y) ==
    IF y <= 1990 THEN 0
    ELSE DaysBeforeYear(y - 1) + (IF IsLeap(y - 1) THEN 366 ELSE 365)

RECURSIVE DaysBeforeMonth(_, _)
DaysBeforeMonth(y, m) ==
    IF m <= 1 THEN 0 ELSE DaysBeforeMonth(y, m - 1) + DaysInMonth(y, m - 1)

\* Seconds from 1990-01-01T00:00:00 to the timestamp.
Seconds(ts) ==
    (DaysBeforeYear(ts.year) + DaysBeforeMonth(ts.year, ts.month) + (ts.day - 1)) * 86400
    + ts.hour * 3600 + ts.minute * 60 + ts.second

\* The timestamp pandas builds from the string carries a time zone (UTC) iff
\* the string ends in "Z".
tz_aware(s) == Len(s) > 0 /\ s[Len(s)] = "Z"

\* Variant: a missing date counts as no distance.
dias_entre_zero(inicio, fim) ==
    IF Truthy(inicio) /\ Truthy(fim)
    THEN PInt((Seconds(to_datetime(fim.s)) - Seconds(to_datetime(inicio.s))) \div 86400)
    ELSE PInt(0)

\* (pd.to_datetime(fim) - pd.to_datetime(inicio)).days inside try / except:
\* the subtraction of a tz-aware and a tz-naive Timestamp raises TypeError,
\* which the bare except turns into None.  Timedelta.days is the floor.
dias_entre(inicio, fim) ==
    IF Truthy(inicio) /\ Truthy(fim) THEN
        LET dt_inicio == to_datetime(inicio.s)
            dt_fim == to_datetime(fim.s)
        IN IF dt_inicio = NaT \/ dt_fim = NaT THEN None
           ELSE IF tz_aware(inicio.s) # tz_aware(fim.s) THEN None
           ELSE PInt((Seconds(dt_fim) - Seconds(dt_inicio)) \div 86400)
    ELSE None

-----------------------------------------------------------------------------
(* Record classifier: the loop of coletar_processos_detalhados *)

\* JSON containers: an object (its members as a record) and an array.
PDict(d) == [t |-> "dict", d |-> d]
PList(l) == [t |-> "list", l |-> l]

\* d.get(key, default) on a dict.
Get(x, key, default) == IF key \in DOMAIN x.d THEN x.d[key] ELSE default

CodigosTutela == {51, 60, 85, 26, 581, 454}

\* Variant: only the first configured code counts.
EmCodigosTutela_so_primeiro(c) == c.t = "int" /\ c.i = 51

\* mov_codigo in self.codigos_tutela: equality with one of the integers
\* (51.0 == 51 in Python; a string or None equals none of them).
EmCodigosTutela(c) ==
    \/ c.t = "int" /\ c.i \in CodigosTutela
    \/ c.t = "float" /\ c.f \in CodigosTutela

TermosAcordo == {<<"a", "c", "o", "r", "d", "o">>,
                 <<"h", "o", "m", "o", "l", "o", "g", "a", "ç", "ã", "o">>,
                 <<"c", "o", "n", "c", "i", "l", "i", "a", "ç", "ã", "o">>,
                 <<"m", "e", "d", "i", "a", "ç", "ã", "o">>}
TermosSentenca == {<<"s", "e", "n", "t", "e", "n", "ç", "a">>,
                   <<"j", "u", "l", "g", "a", "m", "e", "n", "t", "o">>,
                   <<"d", "e", "c", "i", "s", "ã", "o">>}
Deferimento == <<"d", "e", "f", "e", "r", "i", "m", "e", "n", "t", "o">>
Indeferimento == <<"i", "n", "d", "e", "f", "e", "r", "i", "m", "e", "n", "t", "o">>

\* Variant: only the first settlement keyword counts.
EhAcordo_so_acordo(mov_nome) == Contains(mov_nome, <<"a", "c", "o", "r", "d", "o">>)

\* any(termo in mov_nome for termo in ['acordo', ...])
EhAcordo(mov_nome) == \E termo \in TermosAcordo : Contains(mov_nome, termo)

\* Variant: the grant test without the exclusion of "indeferimento".
Defere_sem_exclusao(mov_nome) == Contains(mov_nome, Deferimento)

\* 'deferimento' in mov_nome and 'indeferimento' not in mov_nome
Defere(mov_nome) ==
    Contains(mov_nome, Deferimento) /\ ~Contains(mov_nome, Indeferimento)

\* the elif branch: reached only when the first test failed
Indefere(mov_nome) == ~Defere(mov_nome) /\ Contains(mov_nome, Indeferimento)

\* any(termo in mov_nome for termo in ['sentença', 'julgamento', 'decisão'])
EhSentenca(mov_nome) == \E termo \in TermosSentenca : Contains(mov_nome, termo)

\* Variant: the flag follows the test of the current movement.
Liga_sobrescreve(flag, cond) == cond

\* if cond: flag = True (the only assignment to a flag inside the loop)
Liga(flag, cond) == flag \/ cond

\* Variant: one flag starts set.
FlagsIniciais_com_sentenca ==
    [tem_tutela |-> FALSE, tem_acordo |-> FALSE, tem_deferimento |-> FALSE,
     tem_indeferimento |-> FALSE, tem_sentenca |-> TRUE,
     movimentos_tutela |-> << >>, movimentos_acordo |-> << >>,
     data_primeira_tutela |-> None, data_primeiro_acordo |-> None]

\* The loop variables of one record, as they are before its first movement.
FlagsIniciais ==
    [tem_tutela |-> FALSE, tem_acordo |-> FALSE, tem_deferimento |-> FALSE,
     tem_indeferimento |-> FALSE, tem_sentenca |-> FALSE,
     movimentos_tutela |-> << >>, movimentos_acordo |-> << >>,
     data_primeira_tutela |-> None, data_primeiro_acordo |-> None]

\* Variant: the date of the last qualifying movement wins.
PrimeiraData_ultima(atual, mov_data) == IF Truthy(mov_data) THEN mov_data ELSE atual

\* mov_data and (not atual or mov_data < atual): the earlier date wins.
PrimeiraData(atual, mov_data) ==
    IF Truthy(mov_data) /\ (~Truthy(atual) \/ StrLess(mov_data.s, atual.s))
    THEN mov_data ELSE atual

\* The body of "for movimento in movimentos" for one movement, on the loop
\* variables st.  None.lower() (a null or non-string name) raises
\* AttributeError, which nothing in the function catches.
movimento_passo(st, movimento) ==
    IF movimento.t # "dict" THEN Return(st)
    ELSE LET mov_codigo == Get(movimento, "codigo", PInt(0))
             nome == Get(movimento, "nome", PStr(<< >>))
         IN IF nome.t # "str" THEN Raise
            ELSE
            LET mov_nome == lower(nome.s)
                mov_data == tratar_data(Get(movimento, "dataHora", PStr(<< >>))).val
                tutela == EmCodigosTutela(mov_codigo)
                acordo == EhAcordo(mov_nome)
            IN Return(
               [tem_tutela |-> Liga(st.tem_tutela, tutela),
                tem_acordo |-> Liga(st.tem_acordo, acordo),
                tem_deferimento |-> Liga(st.tem_deferimento, Defere(mov_nome)),
                tem_indeferimento |-> Liga(st.tem_indeferimento, Indefere(mov_nome)),
                tem_sentenca |-> Liga(st.tem_sentenca, EhSentenca(mov_nome)),
                movimentos_tutela |->
                    IF tutela THEN Append(st.movimentos_tutela, Fmt(mov_codigo))
                    ELSE st.movimentos_tutela,
                movimentos_acordo |->
                    IF acordo THEN Append(st.movimentos_acordo, Fmt(mov_codigo))
                    ELSE st.movimentos_acordo,
                data_primeira_tutela |->
                    IF tutela THEN PrimeiraData(st.data_primeira_tutela, mov_data)
                    ELSE st.data_primeira_tutela,
                data_primeiro_acordo |->
                    IF acordo THEN PrimeiraData(st.data_primeiro_acordo, mov_data)
                    ELSE st.data_primeiro_acordo])

RECURSIVE AssuntosCodigos(_)
\* str(codigo) of every dict entry with a truthy code, in source order.
AssuntosCodigos(as) ==
    IF Len(as) = 0 THEN << >>
    ELSE LET a == as[1] IN
         (IF a.t = "dict" /\ Truthy(Get(a, "codigo", PStr(<< >>)))
              THEN <<Fmt(Get(a, "codigo", PStr(<< >>)))>> ELSE << >>)
         \o AssuntosCodigos(Tail(as))

RECURSIVE AssuntosNomes(_)
\* The name of every dict entry with a truthy name, in source order.
AssuntosNomes(as) ==
    IF Len(as) = 0 THEN << >>
    ELSE LET a == as[1] IN
         (IF a.t = "dict" /\ Truthy(Get(a, "nome", PStr(<< >>)))
              THEN <<Get(a, "nome", PStr(<< >>))>> ELSE << >>)
         \o AssuntosNomes(Tail(as))

\* Lines 138-173 for one hit: the basic fields of the record and its movement
\* list.  hit['_source'] raises KeyError without the key; .get on a null
\* classe or orgaoJulgador raises AttributeError; iterating a null assuntos
\* or movimentos raises TypeError; '; '.join raises TypeError on a name that
\* is no string.
processo_inicio(hit) ==
    IF hit.t # "dict" \/ "_source" \notin DOMAIN hit.d THEN Raise
    ELSE LET source == hit.d["_source"] IN
    IF source.t # "dict" THEN Raise
    ELSE LET classe == Get(source, "classe", PDict(EmptyObj))
             orgao == Get(source, "orgaoJulgador", PDict(EmptyObj))
             assuntos == Get(source, "assuntos", PList(<< >>))
             movimentos == Get(source, "movimentos", PList(<< >>))
         IN
    IF classe.t # "dict" \/ orgao.t # "dict" THEN Raise
    ELSE IF assuntos.t # "list" \/ movimentos.t # "list" THEN Raise
    ELSE LET nomes == AssuntosNomes(assuntos.l) IN
    IF \E i \in 1..Len(nomes) : nomes[i].t # "str" THEN Raise
    ELSE Return(
        [base |->
            [numero_processo |-> Get(source, "numeroProcesso", PStr(<< >>)),
             classe_codigo |-> Get(classe, "codigo", PStr(<< >>)),
             classe_nome |-> Get(classe, "nome", PStr(<< >>)),
             data_ajuizamento |->
                 tratar_data(Get(source, "dataAjuizamento", PStr(<< >>))).val,
             data_ultima_atualizacao |->
                 tratar_data(Get(source, "dataHoraUltimaAtualizacao", PStr(<< >>))).val,
             orgao_codigo |-> Get(orgao, "codigo", PStr(<< >>)),
             orgao_nome |-> Get(orgao, "nome", PStr(<< >>)),
             assuntos_codigos |-> PStr(Join(AssuntosCodigos(assuntos.l))),
             assuntos_nomes |-> PStr(Join([i \in 1..Len(nomes) |-> nomes[i].s]))],
         movimentos |-> movimentos.l])

RECURSIVE classifica(_, _)
\* The loop variables after the whole loop over a list of movements none of
\* which raises, started from st.
classifica(st, movimentos) ==
    IF Len(movimentos) = 0 THEN st
    ELSE classifica(movimento_passo(st, movimentos[1]).val, Tail(movimentos))

\* pd.DataFrame(processos): a table with one row per record, in order.
DataFrame(rows) == [t |-> "DataFrame", rows |-> rows]

\* The elements of a list, as set(lista) keeps them.
ToSet(lista) == {lista[i] : i \in 1..Len(lista)}

\* Each element of a list once, in the order of first occurrence.
RECURSIVE SemRepeticao(_)
SemRepeticao(lista) ==
    IF lista = << >> THEN << >>
    ELSE LET antes == SemRepeticao(SubSeq(lista, 1, Len(lista) - 1))
             ultimo == lista[Len(lista)]
         IN IF ultimo \in ToSet(antes) THEN antes ELSE Append(antes, ultimo)

Inverte(lista) == [i \in 1..Len(lista) |-> lista[Len(lista) + 1 - i]]

\* The seeds a process may draw: two stand for all of them.
Sementes == {0, 1}

\* Variant: the list is joined as it is, repetitions included.
Junta_sem_set(lista) == lista

\* '; '.join(set(lista)): the distinct elements, in the order in which the set
\* is walked.  The order of a set of strings follows their hashes, which
\* follow the seed of the process: under one seed the elements come in the
\* order of first occurrence, under the other in the opposite order.
Junta(lista) ==
    IF hash_seed = 0 THEN SemRepeticao(lista) ELSE Inverte(SemRepeticao(lista))

\* Variant: either flag is enough.
tutela_e_acordo_ou(st) == st.tem_tutela \/ st.tem_acordo

\* 'tutela_e_acordo': tem_tutela and tem_acordo
tutela_e_acordo(st) == st.tem_tutela /\ st.tem_acordo

\* Lines 217-258: the flags and the derived intervals are added to the record.
processo_fim(base, st, total) ==
    [numero_processo |-> base.numero_processo,
     classe_codigo |-> base.classe_codigo,
     classe_nome |-> base.classe_nome,
     data_ajuizamento |-> base.data_ajuizamento,
     data_ultima_atualizacao |-> base.data_ultima_atualizacao,
     orgao_codigo |-> base.orgao_codigo,
     orgao_nome |-> base.orgao_nome,
     assuntos_codigos |-> base.assuntos_codigos,
     assuntos_nomes |-> base.assuntos_nomes,
     tem_tutela |-> st.tem_tutela,
     tem_acordo |-> st.tem_acordo,
     tem_deferimento |-> st.tem_deferimento,
     tem_indeferimento |-> st.tem_indeferimento,
     tem_sentenca |-> st.tem_sentenca,
     tutela_e_acordo |-> tutela_e_acordo(st),
     movimentos_tutela |-> Junta(st.movimentos_tutela),
     movimentos_acordo |-> Junta(st.movimentos_acordo),
     data_primeira_tutela |-> st.data_primeira_tutela,
     data_primeiro_acordo |-> st.data_primeiro_acordo,
     total_movimentos |-> total,
     dias_tutela_acordo |-> dias_entre(st.data_primeira_tutela, st.data_primeiro_acordo),
     dias_tramitacao |-> dias_entre(base.data_ajuizamento, base.data_ultima_atualizacao)]

-----------------------------------------------------------------------------
(* Aggregated metrics: calcular_metricas_completas *)

\* int(df_processos[campo].sum()): the number of rows whose flag is set.
Conta(rows, campo) == Cardinality({i \in 1..Len(rows) : rows[i][campo]})

\* A division by zero.
ZeroDivisionError == [t |-> "ZeroDivisionError"]

\* A float with two decimals, kept as its number of hundredths.
PCentesimos(n) == [t |-> "float", centesimos |-> n]

\* round(n / d * 100, 2): the nearest hundredth.  The quotient falls half way
\* between two hundredths only for a denominator that is a multiple of 32.
Percentual(n, d) ==
    IF d = 0 THEN ZeroDivisionError
    ELSE PCentesimos((2 * n * 10000 + d) \div (2 * d))

\* x / total_processos * 100 rounded if total_processos > 0 else 0.
Taxa(n, total) == IF total > 0 THEN Percentual(n, total) ELSE PInt(0)

\* Variant: the share of the reliefs with a settlement is computed at once.
Efetividade_sem_guarda(n_tutela_e_acordo, n_tutela) ==
    Percentual(n_tutela_e_acordo, n_tutela)

\* Lines 298-301.
Efetividade(n_tutela_e_acordo, n_tutela) ==
    IF n_tutela > 0 THEN Percentual(n_tutela_e_acordo, n_tutela) ELSE PInt(0)

\* Lines 304-310: a rate over deferimento + indeferimento.
TaxaDeDecisao(n, total_decisoes) ==
    IF total_decisoes > 0 THEN Percentual(n, total_decisoes) ELSE PInt(0)

\* df.dropna(subset=[campo])[campo]: the values of the column that are not null.
RECURSIVE SemNulos(_, _)
SemNulos(rows, campo) ==
    IF rows = << >> THEN << >>
    ELSE LET resto == SemNulos(Tail(rows), campo)
         IN IF Head(rows)[campo] = None THEN resto
            ELSE <<Head(rows)[campo].i>> \o resto

RECURSIVE Soma(_)
Soma(xs) == IF xs = << >> THEN 0 ELSE Head(xs) + Soma(Tail(xs))

\* round(s / n, 0) of a float: the nearest integer, the even one half way.
MeiaPar(s, n) ==
    LET q == s \div n
        r == s % n
    IN IF 2 * r < n THEN q
       ELSE IF 2 * r > n THEN q + 1
       ELSE IF q % 2 = 0 THEN q ELSE q + 1

\* The k-th smallest of the values.
Kesimo(xs, k) ==
    CHOOSE v \in ToSet(xs) :
        /\ Cardinality({i \in 1..Len(xs) : xs[i] < v}) < k
        /\ k <= Cardinality({i \in 1..Len(xs) : xs[i] <= v})

Media(xs) == PFloat(MeiaPar(Soma(xs), Len(xs)))

\* The middle value, or the mean of the two middle values.
Mediana(xs) ==
    LET n == Len(xs)
    IN IF n % 2 = 1 THEN PFloat(Kesimo(xs, (n + 1) \div 2))
       ELSE PFloat(MeiaPar(Kesimo(xs, n \div 2) + Kesimo(xs, n \div 2 + 1), 2))

Minimo(xs) == PInt(CHOOSE v \in ToSet(xs) : \A i \in 1..Len(xs) : v <= xs[i])
Maximo(xs) == PInt(CHOOSE v \in ToSet(xs) : \A i \in 1..Len(xs) : v >= xs[i])

\* The dictionary of lines 282-331.
Metricas(rows) ==
    LET total == Len(rows)
        n_tutela == Conta(rows, "tem_tutela")
        n_acordo == Conta(rows, "tem_acordo")
        n_tutela_e_acordo == Conta(rows, "tutela_e_acordo")
        n_deferimento == Conta(rows, "tem_deferimento")
        n_indeferimento == Conta(rows, "tem_indeferimento")
        n_sentenca == Conta(rows, "tem_sentenca")
        total_decisoes == n_deferimento + n_indeferimento
        tramitacao == SemNulos(rows, "dias_tramitacao")
        tutela_acordo == SemNulos(rows, "dias_tutela_acordo")
    IN [total_processos |-> total,
        processos_com_tutela |-> n_tutela,
        processos_com_acordo |-> n_acordo,
        processos_tutela_e_acordo |-> n_tutela_e_acordo,
        processos_com_deferimento |-> n_deferimento,
        processos_com_indeferimento |-> n_indeferimento,
        processos_com_sentenca |-> n_sentenca,
        taxa_tutela |-> Taxa(n_tutela, total),
        taxa_acordo |-> Taxa(n_acordo, total),
        taxa_tutela_e_acordo |-> Taxa(n_tutela_e_acordo, total),
        efetividade_tutela |-> Efetividade(n_tutela_e_acordo, n_tutela),
        taxa_deferimento |-> TaxaDeDecisao(n_deferimento, total_decisoes),
        taxa_indeferimento |-> TaxaDeDecisao(n_indeferimento, total_decisoes),
        tempo_medio_tramitacao |->
            IF tramitacao # << >> THEN Media(tramitacao) ELSE PInt(0),
        tempo_mediano_tramitacao |->
            IF tramitacao # << >> THEN Mediana(tramitacao) ELSE PInt(0),
        tempo_min_tramitacao |->
            IF tramitacao # << >> THEN Minimo(tramitacao) ELSE PInt(0),
        tempo_max_tramitacao |->
            IF tramitacao # << >> THEN Maximo(tramitacao) ELSE PInt(0),
        tempo_medio_tutela_acordo |->
            IF tutela_acordo # << >> THEN Media(tutela_acordo) ELSE PInt(0),
        tempo_mediano_tutela_acordo |->
            IF tutela_acordo # << >> THEN Mediana(tutela_acordo) ELSE PInt(0)]

\* The rates of the dictionary.
TaxasDe(m) ==
    {m.taxa_tutela, m.taxa_acordo, m.taxa_tutela_e_acordo, m.efetividade_tutela,
     m.taxa_deferimento, m.taxa_indeferimento}

\* calcular_metricas_completas (lines 272-340): {} for an empty table; a
\* division by zero leaves the function as an exception.
calcular_metricas_completas(tabela) ==
    IF tabela.rows = << >> THEN Return(EmptyObj)
    ELSE LET m == Metricas(tabela.rows)
         IN IF \E x \in TaxasDe(m) : x.t = "ZeroDivisionError" THEN Raise
            ELSE Return(m)

-----------------------------------------------------------------------------
(* Specification of the query builder: one call of construir_query on       *)
(* arguments drawn from small sets.                                         *)

MaxExcesso == 2     \* requested sizes go up to LimiteTamanho + MaxExcesso
MaxNegativo == 1    \* and down to -MaxNegativo

\* A code as main() passes it: None when skipped, else int(input), 0 included.
Codigos(c) == {None, PInt(0), PInt(c)}
\* A date bound: None, or the day the user typed with its time suffix; the
\* empty string is what a direct caller may pass for "no bound".
DatasInicio == {None, PStr(<< >>), PStr(InicioDoDia(IsoDate(2024, 1, 1)))}
DatasFim == {None, PStr(<< >>), PStr(FimDoDia(IsoDate(2024, 12, 31)))}
Tamanhos ==
    {Omitido} \cup
    {PInt(n) : n \in ((0 - MaxNegativo)..1) \cup {DefaultTamanho, LimiteTamanho - 1}
                     \cup (LimiteTamanho..(LimiteTamanho + MaxExcesso))}

Modulos == {"datajud", "datajud_2"}

\* No response is being handled outside the classifier loop.
SemResposta ==
    /\ resultado = NaoChamado
    /\ extraido = NaoChamado

\* _fazer_requisicao is not in use.
SemRequisicao ==
    /\ rpc = "parado"
    /\ tentativa = 0
    /\ esperas = 0
    /\ historico = << >>

\* buscar_processos is not in use.
SemBusca ==
    /\ bpc = "parado"
    /\ tribunal = None
    /\ pedidos = << >>
    /\ respostas = << >>
    /\ retorno = NaoChamado
    /\ json_erro_de_requests = TRUE

\* calcular_metricas_completas is not in use.
SemMetricas == metricas = NaoChamado

SemExtras == SemRequisicao /\ SemBusca /\ SemMetricas

\* The other components are not in use.
SemOutros == SemResposta /\ coletas = << >> /\ hash_seed = 0 /\ SemExtras

\* One process with no response handled yet: its seed is drawn at start-up.
UmProcesso == SemResposta /\ coletas = << >> /\ hash_seed \in Sementes /\ SemExtras

\* The classifier has not been started.
SemClassificacao ==
    /\ hits = << >>
    /\ cpc = "parado"
    /\ hit_i = 1
    /\ mov_i = 1
    /\ processo_base = None
    /\ tem_tutela = FALSE /\ tem_acordo = FALSE /\ tem_deferimento = FALSE
    /\ tem_indeferimento = FALSE /\ tem_sentenca = FALSE
    /\ movimentos_tutela = << >> /\ movimentos_acordo = << >>
    /\ data_primeira_tutela = None /\ data_primeiro_acordo = None
    /\ processos = << >>
    /\ df = NaoChamado
    /\ dados_coletados = NaoChamado

SemData ==
    /\ data_str = None
    /\ data_ret = NaoChamado
    /\ data_ret2 = NaoChamado
    /\ data_origem = [forma |-> "nenhuma", ano |-> 0, valida |-> FALSE]

InitQuery ==
    /\ modulo \in Modulos
    /\ filtros \in [classe_codigo : Codigos(1116),
                    assunto_codigo : Codigos(10069),
                    movimento_codigo : Codigos(51),
                    data_inicio : DatasInicio,
                    data_fim : DatasFim,
                    tamanho : Tamanhos]
    /\ query = NaoChamado
    /\ SemData
    /\ SemClassificacao
    /\ SemOutros

\* query = self.construir_query(classe_codigo, ..., tamanho)
ConstruirQuery ==
    /\ query = NaoChamado
    /\ query' = construir_query(modulo, filtros)
    /\ UNCHANGED <<modulo, filtros>>
    /\ UNCHANGED dvars
    /\ UNCHANGED cvars
    /\ UNCHANGED ovars

NextQuery == ConstruirQuery

SpecQuery == InitQuery /\ [][NextQuery]_vars

-----------------------------------------------------------------------------
(* Specification of the date sanitizer: one call of _tratar_data on a value *)
(* of a record's date field, then a second call on an accepted result.      *)

MargemAnos == 1     \* years within MargemAnos of each limit are tried

Anos ==
    ((AnoMinimo - MargemAnos)..(AnoMinimo + MargemAnos))
    \cup ((AnoMaximo - MargemAnos)..(AnoMaximo + MargemAnos))
    \cup ((2261 - MargemAnos)..(2263 + MargemAnos))
    \cup {1985, 2002, 2024}

\* <<month, day>>; the last one is no calendar day.
Dias == {<<1, 1>>, <<3, 15>>, <<12, 26>>, <<12, 31>>, <<2, 30>>}

Origem(forma, ano, md) ==
    [forma |-> forma, ano |-> ano,
     valida |-> md[1] \in 1..12 /\ md[2] \in 1..DaysInMonth(ano, md[1])]
SemOrigem(forma) == [forma |-> forma, ano |-> 0, valida |-> FALSE]

Entrada(valor, origem) == [valor |-> valor, origem |-> origem]

EntradasData ==
    UNION {
        { Entrada(PStr(IsoDate(y, md[1], md[2])), Origem("data", y, md)),
          Entrada(PStr(InicioDoDia(IsoDate(y, md[1], md[2]))), Origem("data_hora", y, md)),
          Entrada(PStr(IsoDate(y, md[1], md[2]) \o <<"T">> \o IsoTime(10, 0, 0)
                       \o <<".", "2", "2", "6", "1", "Z">>), Origem("fracao", y, md)),
          Entrada(PStr(Compact(y, md[1], md[2], 10, 0, 0)), Origem("compacta", y, md)) }
        : y \in Anos, md \in Dias }

EntradasOutras ==
    { Entrada(None, SemOrigem("none")),
      Entrada(PStr(<< >>), SemOrigem("vazia")),
      Entrada(PStr(<<"N", "/", "A">>), SemOrigem("lixo")),
      Entrada(PStr(<<"a", "b", "c">>), SemOrigem("lixo")),
      Entrada(PStr(<<"x", "2", "2", "6", "3">>), SemOrigem("lixo")),
      Entrada(PInt(0), SemOrigem("numero")),
      Entrada(PInt(20240315), SemOrigem("numero")),
      Entrada(PInt(2263), SemOrigem("numero")),
      Entrada(PFloat(0), SemOrigem("numero")),
      Entrada(PFloat(1700000000), SemOrigem("numero")),
      Entrada(PBool(TRUE), SemOrigem("booleano")),
      Entrada(PBool(FALSE), SemOrigem("booleano")) }

Entradas == EntradasData \cup EntradasOutras

SemQuery ==
    /\ modulo = "datajud"
    /\ filtros = None
    /\ query = NaoChamado

InitData ==
    /\ \E e \in Entradas : data_str = e.valor /\ data_origem = e.origem
    /\ data_ret = NaoChamado
    /\ data_ret2 = NaoChamado
    /\ SemQuery
    /\ SemClassificacao
    /\ SemOutros

\* data = self._tratar_data(source.get(campo, ''))
TratarData ==
    /\ data_ret = NaoChamado
    /\ data_ret' = tratar_data(data_str)
    /\ UNCHANGED <<data_str, data_ret2, data_origem>>
    /\ UNCHANGED qvars
    /\ UNCHANGED cvars
    /\ UNCHANGED ovars

\* The accepted result is sanitized again.
TratarNovamente ==
    /\ data_ret # NaoChamado
    /\ data_ret2 = NaoChamado
    /\ ~data_ret.exc
    /\ data_ret.val # None
    /\ data_ret2' = tratar_data(data_ret.val)
    /\ UNCHANGED <<data_str, data_ret, data_origem>>
    /\ UNCHANGED qvars
    /\ UNCHANGED cvars
    /\ UNCHANGED ovars

NextData == TratarData \/ TratarNovamente

SpecData == InitData /\ [][NextData]_vars

-----------------------------------------------------------------------------
(* Specification of the classifier: coletar_processos_detalhados on the     *)
(* hits of one response, one step per hit started, movement scanned and     *)
(* record appended.                                                         *)

MaxMovimentos == 3  \* movement lists have up to MaxMovimentos entries
MaxHits == 3        \* responses of the batch have up to MaxHits hits

Movimento(codigo, nome, dataHora) ==
    PDict([codigo |-> codigo, nome |-> nome, dataHora |-> dataHora])

\* Relief (code 51) on 2024-01-10.
MovLiminar ==
    Movimento(PInt(51), PStr(<<"C", "o", "n", "c", "e", "s", "s", "ã", "o", " ", "d", "e", " ", "L", "i", "m", "i", "n", "a", "r">>), PStr(InicioDoDia(IsoDate(2024, 1, 10))))
\* Settlement by name on 2024-03-01, 51 days later.
MovHomologacao ==
    Movimento(PInt(466), PStr(<<"H", "o", "m", "o", "l", "o", "g", "a", "ç", "ã", "o", " ", "d", "e", " ", "A", "c", "o", "r", "d", "o">>), PStr(InicioDoDia(IsoDate(2024, 3, 1))))
\* Relief (code 60) and grant, with a date the sanitizer rejects.
MovDeferimento ==
    Movimento(PInt(60), PStr(<<"D", "E", "F", "E", "R", "I", "M", "E", "N", "T", "O">>), PStr(InicioDoDia(IsoDate(2263, 1, 1))))
\* Relief (code 85) and denial, dated without time or zone.
MovIndeferimento ==
    Movimento(PInt(85), PStr(<<"I", "n", "d", "e", "f", "e", "r", "i", "m", "e", "n", "t", "o", " ", "d", "o", " ", "p", "e", "d", "i", "d", "o", " ", "d", "e", " ", "t", "u", "t", "e", "l", "a">>), PStr(IsoDate(2024, 2, 1)))
\* Relief by code and settlement by name in one movement.
MovAcordoLiminar ==
    Movimento(PInt(51), PStr(<<"A", "c", "o", "r", "d", "o">>), PStr(InicioDoDia(IsoDate(2023, 11, 20))))
\* Settlement only, ten days before MovLiminar.
MovConciliacao ==
    Movimento(PInt(970), PStr(<<"C", "o", "n", "c", "i", "l", "i", "a", "ç", "ã", "o">>), PStr(InicioDoDia(IsoDate(2023, 12, 31))))
\* A movement with a name only.
MovSentenca == PDict([nome |-> PStr(<<"S", "e", "n", "t", "e", "n", "ç", "a">>)])
\* An entry that is no object.
MovTexto == PStr(<<"x">>)
\* A movement whose name is null.
MovSemNome ==
    Movimento(PInt(51), None, PStr(InicioDoDia(IsoDate(2024, 1, 10))))
\* Relief (code 26) dated in the compact form, five days before MovLiminar.
MovCompacta ==
    Movimento(PInt(26), PStr(<<"L", "i", "m", "i", "n", "a", "r">>), PStr(Compact(2024, 1, 5, 0, 0, 0)))

\* Settlement by "mediação" in upper case, with a code that is a string and
\* no date.
MovMediacao == PDict([codigo |-> PStr(<<"x">>), nome |-> PStr(<<"A", "u", "d", "i", "ê", "n", "c", "i", "a", " ", "d", "e", " ", "M", "E", "D", "I", "A", "Ç", "Ã", "O">>)])
\* Ruling by "julgamento" in upper case, with a relief code (454) and a date
\* the sanitizer rejects.
MovJulgamento == Movimento(PInt(454), PStr(<<"J", "U", "L", "G", "A", "M", "E", "N", "T", "O">>), PStr(<<"N", "/", "A">>))
\* Ruling by "decisão", with a null date.
MovDecisao == Movimento(PInt(3), PStr(<<"D", "e", "c", "i", "s", "ã", "o">>), None)

Movimentos ==
    {MovLiminar, MovHomologacao, MovDeferimento, MovIndeferimento, MovAcordoLiminar,
     MovConciliacao, MovSentenca, MovTexto, MovSemNome, MovCompacta,
     MovMediacao, MovJulgamento, MovDecisao}

\* The movements that the longer lists are made of.
MovimentosFrequentes ==
    {MovLiminar, MovIndeferimento, MovAcordoLiminar, MovConciliacao, MovSentenca, MovTexto}

\* Every list of up to two movements, and the lists of up to MaxMovimentos
\* of the frequent ones.
ListasMovimentos ==
    UNION {[1..n -> Movimentos] : n \in 0..2}
    \cup UNION {[1..n -> MovimentosFrequentes] : n \in 3..MaxMovimentos}

Fonte(ajuizamento, atualizacao, movimentos) ==
    [numeroProcesso |-> PStr(<<"1">>),
     classe |-> PDict([codigo |-> PInt(7), nome |-> PStr(<<"P", "C">>)]),
     orgaoJulgador |-> PDict([codigo |-> PInt(9), nome |-> PStr(<<"V", "C">>)]),
     dataAjuizamento |-> ajuizamento,
     dataHoraUltimaAtualizacao |-> atualizacao,
     assuntos |-> PList(<<PDict([codigo |-> PInt(10069), nome |-> PStr(<<"E", "M">>)])>>),
     movimentos |-> PList(movimentos)]

\* A hit whose _source has the given members.
Hit(source) == PDict(Obj1("_source", PDict(source)))

Sem(d, key) == [x \in DOMAIN d \ {key} |-> d[x]]

DataPadraoAjuizamento == PStr(InicioDoDia(IsoDate(2023, 10, 2)))
DataPadraoAtualizacao == PStr(FimDoDia(IsoDate(2024, 4, 5)))

FontePadrao(movimentos) ==
    Fonte(DataPadraoAjuizamento, DataPadraoAtualizacao, movimentos)

\* Filing and last-update dates: well formed with and without zone, compact,
\* rejected by the sanitizer, empty, null.
DatasAjuizamento ==
    {DataPadraoAjuizamento, PStr(Compact(2023, 10, 2, 0, 0, 0)), PStr(IsoDate(2024, 4, 6)),
     PStr(InicioDoDia(IsoDate(1985, 5, 5))), PStr(<< >>), None}
DatasAtualizacao ==
    {DataPadraoAtualizacao, PStr(IsoDate(2024, 4, 5)),
     PStr(InicioDoDia(IsoDate(2031, 1, 1))), PStr(<<"N", "/", "A">>), None}

\* Hits that differ in their movement list.
HitsPorMovimentos == {Hit(FontePadrao(ms)) : ms \in ListasMovimentos}

\* Hits that differ in their two dates (and in having both, one or neither).
HitsPorDatas ==
    {Hit(Fonte(a, b, <<MovLiminar>>)) : a \in DatasAjuizamento, b \in DatasAtualizacao}
    \cup {Hit(Sem(FontePadrao(<< >>), "dataAjuizamento")),
          Hit(Sem(FontePadrao(<< >>), "dataHoraUltimaAtualizacao"))}

\* Hits with missing or malformed parts.
HitsMalformados ==
    {Hit(Sem(FontePadrao(<< >>), "movimentos")),
     Hit([FontePadrao(<< >>) EXCEPT !.movimentos = None]),
     Hit(Sem(FontePadrao(<<MovLiminar>>), "classe")),
     Hit([FontePadrao(<<MovLiminar>>) EXCEPT !.classe = None]),
     Hit(Sem(FontePadrao(<<MovLiminar>>), "orgaoJulgador")),
     Hit([FontePadrao(<<MovLiminar>>) EXCEPT !.orgaoJulgador = None]),
     Hit(Sem(FontePadrao(<<MovLiminar>>), "assuntos")),
     Hit([FontePadrao(<<MovLiminar>>) EXCEPT !.assuntos = None]),
     Hit([FontePadrao(<<MovLiminar>>) EXCEPT !.assuntos =
             PList(<<PStr(<<"x">>), PDict(EmptyObj), PDict([codigo |-> PInt(0), nome |-> PStr(<< >>)]),
                     PDict([codigo |-> PStr(<<"1", "2">>), nome |-> PStr(<<"D", "M">>)]),
                     PDict([codigo |-> PInt(8934)])>>)]),
     Hit([FontePadrao(<<MovLiminar>>) EXCEPT !.assuntos =
             PList(<<PDict([codigo |-> PInt(1), nome |-> PInt(5)])>>)]),
     Hit(Sem(Sem(FontePadrao(<< >>), "numeroProcesso"), "movimentos")),
     PDict(EmptyObj)}

HitsClassifica == HitsPorMovimentos \cup HitsPorDatas \cup HitsMalformados

\* Lines 135-136: processos = [] before the loop over the hits.
InicioDaColeta ==
    /\ cpc = "hit"
    /\ hit_i = 1
    /\ mov_i = 1
    /\ processo_base = None
    /\ tem_tutela = FALSE /\ tem_acordo = FALSE /\ tem_deferimento = FALSE
    /\ tem_indeferimento = FALSE /\ tem_sentenca = FALSE
    /\ movimentos_tutela = << >> /\ movimentos_acordo = << >>
    /\ data_primeira_tutela = None /\ data_primeiro_acordo = None
    /\ processos = << >>
    /\ df = NaoChamado
    /\ dados_coletados = NaoChamado

InitClassifica ==
    /\ \E hit \in HitsClassifica : hits = <<hit>>
    /\ InicioDaColeta
    /\ SemQuery
    /\ SemData
    /\ UmProcesso

\* The loop variables of the record being scanned.
Flags ==
    [tem_tutela |-> tem_tutela, tem_acordo |-> tem_acordo,
     tem_deferimento |-> tem_deferimento, tem_indeferimento |-> tem_indeferimento,
     tem_sentenca |-> tem_sentenca,
     movimentos_tutela |-> movimentos_tutela, movimentos_acordo |-> movimentos_acordo,
     data_primeira_tutela |-> data_primeira_tutela,
     data_primeiro_acordo |-> data_primeiro_acordo]

AtribuiFlags(st) ==
    /\ tem_tutela' = st.tem_tutela
    /\ tem_acordo' = st.tem_acordo
    /\ tem_deferimento' = st.tem_deferimento
    /\ tem_indeferimento' = st.tem_indeferimento
    /\ tem_sentenca' = st.tem_sentenca
    /\ movimentos_tutela' = st.movimentos_tutela
    /\ movimentos_acordo' = st.movimentos_acordo
    /\ data_primeira_tutela' = st.data_primeira_tutela
    /\ data_primeiro_acordo' = st.data_primeiro_acordo

\* The movement list of the hit being classified (read after IniciaProcesso
\* has found it to be a list).
MovimentosDoHit == processo_inicio(hits[hit_i]).val.movimentos

\* An exception leaves the function: nothing is stored or returned.
Aborta ==
    /\ cpc' = "erro"
    /\ UNCHANGED <<hits, hit_i, mov_i, processo_base, flagvars, processos, df,
                   dados_coletados>>

\* for hit in resultado['hits']['hits']: the basic fields of the next hit
\* are read and the loop variables reset (lines 137-185).
IniciaProcesso ==
    /\ cpc = "hit"
    /\ hit_i <= Len(hits)
    /\ LET r == processo_inicio(hits[hit_i]) IN
       IF r.exc THEN Aborta
       ELSE /\ processo_base' = r.val.base
            /\ AtribuiFlags(FlagsIniciais)
            /\ mov_i' = 1
            /\ cpc' = "mov"
            /\ UNCHANGED <<hits, hit_i, processos, df, dados_coletados>>
    /\ UNCHANGED qvars
    /\ UNCHANGED dvars
    /\ UNCHANGED ovars

\* for movimento in movimentos: one iteration (lines 187-215).
ProcessaMovimento ==
    /\ cpc = "mov"
    /\ mov_i <= Len(MovimentosDoHit)
    /\ LET r == movimento_passo(Flags, MovimentosDoHit[mov_i]) IN
       IF r.exc THEN Aborta
       ELSE /\ AtribuiFlags(r.val)
            /\ mov_i' = mov_i + 1
            /\ UNCHANGED <<hits, cpc, hit_i, processo_base, processos, df, dados_coletados>>
    /\ UNCHANGED qvars
    /\ UNCHANGED dvars
    /\ UNCHANGED ovars

\* After the last movement the record is completed and appended
\* (lines 217-260).
FinalizaProcesso ==
    /\ cpc = "mov"
    /\ mov_i > Len(MovimentosDoHit)
    /\ processos' = Append(processos,
                           processo_fim(processo_base, Flags, Len(MovimentosDoHit)))
    /\ hit_i' = hit_i + 1
    /\ cpc' = "hit"
    /\ UNCHANGED <<hits, mov_i, processo_base, flagvars, df, dados_coletados>>
    /\ UNCHANGED qvars
    /\ UNCHANGED dvars
    /\ UNCHANGED ovars

\* df = pd.DataFrame(processos); self.dados_coletados[...] = df; return df
\* (lines 262-270).
Retorna ==
    /\ cpc = "hit"
    /\ hit_i > Len(hits)
    /\ df' = DataFrame(processos)
    /\ dados_coletados' = DataFrame(processos)
    /\ cpc' = "fim"
    /\ UNCHANGED <<hits, hit_i, mov_i, processo_base, flagvars, processos>>
    /\ UNCHANGED qvars
    /\ UNCHANGED dvars
    /\ UNCHANGED ovars

NextClassifica == IniciaProcesso \/ ProcessaMovimento \/ FinalizaProcesso \/ Retorna

SpecClassifica == InitClassifica /\ [][NextClassifica]_vars

\* Responses of several hits, drawn from a few sample records.
HitsLote ==
    {Hit(FontePadrao(<<MovLiminar, MovHomologacao>>)),
     Hit(FontePadrao(<<MovIndeferimento>>)),
     Hit(FontePadrao(<<MovSemNome>>)),
     Hit([FontePadrao(<<MovSentenca>>) EXCEPT !.classe = None])}

InitLote ==
    /\ hits \in UNION {[1..n -> HitsLote] : n \in 0..MaxHits}
    /\ InicioDaColeta
    /\ SemQuery
    /\ SemData
    /\ UmProcesso

SpecLote == InitLote /\ [][NextClassifica]_vars

-----------------------------------------------------------------------------
(* Specification of the handling of a response: the entry of                *)
(* coletar_processos_detalhados and extrair_informacoes.                    *)

\* not resultado or 'hits' not in resultado
SemHits(r) ==
    \/ r.t = "none"
    \/ r.t = "dict" /\ (DOMAIN r.d = {} \/ "hits" \notin DOMAIN r.d)

\* resultado['hits']['hits']
HitsDe(r) == r.d.hits.d.hits.l

NA == <<"N", "/", "A">>

RECURSIVE PrimeiroMaximo(_, _)
\* max(movimentos, key=...): the first element whose key no other exceeds.
PrimeiroMaximo(ms, melhor) ==
    IF Len(ms) = 0 THEN melhor
    ELSE IF StrLess(Get(melhor, "dataHora", PStr(<< >>)).s,
                    Get(ms[1], "dataHora", PStr(<< >>)).s)
         THEN PrimeiroMaximo(Tail(ms), ms[1])
         ELSE PrimeiroMaximo(Tail(ms), melhor)

\* info['ultimo_movimento'] for a list of movements.  x.get on an entry that
\* is no dict raises AttributeError; comparing keys of which one is None
\* raises TypeError.
ultimo_movimento(movimentos) ==
    IF ~(movimentos.t = "list" /\ movimentos.l # << >>) THEN Return(None)
    ELSE LET ms == movimentos.l IN
    IF \E k \in 1..Len(ms) : ms[k].t # "dict" THEN Raise
    ELSE IF Len(ms) >= 2 /\ \E k \in 1..Len(ms) :
                Get(ms[k], "dataHora", PStr(<< >>)).t # "str" THEN Raise
    ELSE LET ultimo_mov == PrimeiroMaximo(Tail(ms), ms[1])
         IN Return([nome |-> Get(ultimo_mov, "nome", PStr(NA)),
                    data |-> Get(ultimo_mov, "dataHora", PStr(NA))])

\* The info dict of one hit (the body of the loop of extrair_informacoes).
informacao(hit) ==
    IF hit.t # "dict" \/ "_source" \notin DOMAIN hit.d THEN Raise
    ELSE LET processo == hit.d["_source"] IN
    IF processo.t # "dict" THEN Raise
    ELSE LET classe == Get(processo, "classe", PDict(EmptyObj))
             orgao == Get(processo, "orgaoJulgador", PDict(EmptyObj))
             assuntos == Get(processo, "assuntos", PList(<< >>))
             ultimo == ultimo_movimento(Get(processo, "movimentos", PList(<< >>)))
         IN
    IF classe.t # "dict" \/ orgao.t # "dict" \/ assuntos.t # "list" THEN Raise
    ELSE IF \E j \in 1..Len(assuntos.l) : assuntos.l[j].t # "dict" THEN Raise
    ELSE IF ultimo.exc THEN Raise
    ELSE Return(
        [numero |-> Get(processo, "numeroProcesso", PStr(NA)),
         classe |-> Get(classe, "nome", PStr(NA)),
         orgao |-> Get(orgao, "nome", PStr(NA)),
         data_ajuizamento |-> Get(processo, "dataAjuizamento", PStr(NA)),
         assuntos |-> [j \in 1..Len(assuntos.l) |-> Get(assuntos.l[j], "nome", PStr(NA))],
         ultimo_movimento |-> ultimo.val])

\* Variant: a response without hits is an error.
extrair_informacoes_exige_hits(r) ==
    IF SemHits(r) THEN Raise
    ELSE LET infos == [i \in 1..Len(HitsDe(r)) |-> informacao(HitsDe(r)[i])]
         IN IF \E i \in 1..Len(infos) : infos[i].exc THEN Raise
            ELSE Return([i \in 1..Len(infos) |-> infos[i].val])

\* DataJudAPI.extrair_informacoes (the same text in both scripts).
extrair_informacoes(r) ==
    IF SemHits(r) THEN Return(<< >>)
    ELSE LET infos == [i \in 1..Len(HitsDe(r)) |-> informacao(HitsDe(r)[i])]
         IN IF \E i \in 1..Len(infos) : infos[i].exc THEN Raise
            ELSE Return([i \in 1..Len(infos) |-> infos[i].val])

\* A search response with the given hits.
Resposta(hs) ==
    PDict([took |-> PInt(3),
           hits |-> PDict([total |-> PInt(Len(hs)), hits |-> PList(hs)])])

\* No response, an empty object, answers without "hits", and answers with
\* up to MaxHits hits.
Respostas ==
    {None, PDict(EmptyObj), PDict([error |-> PStr(<<"x">>)]),
     PDict([took |-> PInt(3), timed_out |-> PBool(FALSE)])}
    \cup {Resposta(hs) : hs \in UNION {[1..n -> HitsLote] : n \in 0..MaxHits}}

InitResposta ==
    /\ resultado \in Respostas
    /\ extraido = NaoChamado
    /\ hits = << >>
    /\ cpc = "inicio"
    /\ hit_i = 1
    /\ mov_i = 1
    /\ processo_base = None
    /\ tem_tutela = FALSE /\ tem_acordo = FALSE /\ tem_deferimento = FALSE
    /\ tem_indeferimento = FALSE /\ tem_sentenca = FALSE
    /\ movimentos_tutela = << >> /\ movimentos_acordo = << >>
    /\ data_primeira_tutela = None /\ data_primeiro_acordo = None
    /\ processos = << >>
    /\ df = NaoChamado
    /\ dados_coletados = NaoChamado
    /\ coletas = << >>
    /\ hash_seed \in Sementes
    /\ SemExtras
    /\ SemQuery
    /\ SemData

\* Variant: the list of records of the call before is kept.
RecebeResultado_acumula ==
    /\ cpc = "inicio"
    /\ IF SemHits(resultado)
       THEN /\ df' = DataFrame(<< >>)
            /\ cpc' = "fim"
            /\ UNCHANGED <<hits, hit_i, processos>>
       ELSE /\ hits' = HitsDe(resultado)
            /\ hit_i' = 1
            /\ cpc' = "hit"
            /\ UNCHANGED <<df, processos>>
    /\ UNCHANGED <<mov_i, processo_base, flagvars, dados_coletados>>
    /\ UNCHANGED ovars
    /\ UNCHANGED qvars
    /\ UNCHANGED dvars

\* if not resultado or 'hits' not in resultado: return pd.DataFrame();
\* otherwise processos = [] and the loop over resultado['hits']['hits'] starts
\* (lines 131-137).
RecebeResultado ==
    /\ cpc = "inicio"
    /\ IF SemHits(resultado)
       THEN /\ df' = DataFrame(<< >>)
            /\ cpc' = "fim"
            /\ UNCHANGED <<hits, hit_i, processos>>
       ELSE /\ hits' = HitsDe(resultado)
            /\ processos' = << >>
            /\ hit_i' = 1
            /\ cpc' = "hit"
            /\ UNCHANGED df
    /\ UNCHANGED <<mov_i, processo_base, flagvars, dados_coletados>>
    /\ UNCHANGED ovars
    /\ UNCHANGED qvars
    /\ UNCHANGED dvars

\* processos = api.extrair_informacoes(resultado)
ExtrairInformacoes ==
    /\ resultado # NaoChamado
    /\ extraido = NaoChamado
    /\ extraido' = extrair_informacoes(resultado)
    /\ UNCHANGED <<resultado, coletas, hash_seed, xvars>>
    /\ UNCHANGED cvars
    /\ UNCHANGED qvars
    /\ UNCHANGED dvars

NextResposta == RecebeResultado \/ NextClassifica \/ ExtrairInformacoes

SpecResposta == InitResposta /\ [][NextResposta]_vars

-----------------------------------------------------------------------------
(* Specification of the request wrapper: one call of _fazer_requisicao,     *)
(* whose requests.post are answered by the network in any way.              *)

max_tentativas == 3

\* response.json() on a body that is not JSON raises.
CorpoInvalido == [t |-> "invalido"]

\* Bodies of an answer: search responses, the JSON null, and text that is not
\* JSON.
Corpos == {Resposta(<< >>), Resposta(<<Hit(FontePadrao(<<MovLiminar>>))>>), None, CorpoInvalido}

\* What one requests.post gives: an exception (connection refused, timeout),
\* or a response with a status code and a body.
Desfechos ==
    {[t |-> "excecao"]}
    \cup {[t |-> "resposta", status |-> s, corpo |-> c] : s \in {200, 400, 503}, c \in Corpos}

\* Lines 67-69: the status is 200 and response.json() gives the body.
Sucesso(d) == d.t = "resposta" /\ d.status = 200 /\ d.corpo # CorpoInvalido

\* Variant: a wait follows every failed attempt.
HaOutraTentativa_sempre(n) == n < max_tentativas

\* if tentativa < max_tentativas - 1 (lines 73 and 80).
HaOutraTentativa(n) == n < max_tentativas - 1

InitRequisicao ==
    /\ rpc = "tenta"
    /\ tentativa = 0
    /\ esperas = 0
    /\ historico = << >>
    /\ SemBusca
    /\ SemMetricas
    /\ SemResposta
    /\ coletas = << >>
    /\ hash_seed = 0
    /\ SemQuery
    /\ SemData
    /\ SemClassificacao

\* One pass of the loop body (lines 61-82): the request, then the return of
\* the parsed body, or the branch of a failed attempt.  A body that does not
\* parse raises inside the try, so it takes the branch of the exceptions.
Tenta ==
    /\ rpc = "tenta"
    /\ \E d \in Desfechos :
          /\ historico' = Append(historico, d)
          /\ IF Sucesso(d)
             THEN /\ resultado' = d.corpo
                  /\ rpc' = "fim"
             ELSE IF HaOutraTentativa(tentativa)
             THEN /\ rpc' = "dorme"
                  /\ UNCHANGED resultado
             ELSE /\ resultado' = None
                  /\ rpc' = "fim"
    /\ UNCHANGED <<tentativa, esperas, extraido, coletas, hash_seed, bvars, mvars>>
    /\ UNCHANGED qvars
    /\ UNCHANGED dvars
    /\ UNCHANGED cvars

\* time.sleep(2); continue (lines 74-75, 81-82), and the return None that
\* follows the loop when range(max_tentativas) is used up (line 85).
Dorme ==
    /\ rpc = "dorme"
    /\ esperas' = esperas + 1
    /\ tentativa' = tentativa + 1
    /\ IF tentativa + 1 < max_tentativas
       THEN /\ rpc' = "tenta"
            /\ UNCHANGED resultado
       ELSE /\ rpc' = "fim"
            /\ resultado' = None
    /\ UNCHANGED <<historico, extraido, coletas, hash_seed, bvars, mvars>>
    /\ UNCHANGED qvars
    /\ UNCHANGED dvars
    /\ UNCHANGED cvars

NextRequisicao == Tenta \/ Dorme

SpecRequisicao == InitRequisicao /\ [][NextRequisicao]_vars

\* Every requests.post carries a timeout (line 65) and time.sleep(2) ends, so
\* a step that is possible is taken.
SpecRequisicaoJusta == SpecRequisicao /\ WF_vars(NextRequisicao)

-----------------------------------------------------------------------------
(* Specification of the search of jurimetria_datajud_2: one call of         *)
(* buscar_processos, whose requests are answered by the network in any way. *)

\* self.tribunais (lines 34-62) has "TJSP"; "TJXX" is not one of its keys.
Tribunais == {PStr(<<"T", "J", "S", "P">>), PStr(<<"T", "J", "X", "X">>)}
TribunalConhecido(tr) == tr = PStr(<<"T", "J", "S", "P">>)

\* Arguments of the call: no filter or a class filter, and a few sizes on both
\* sides of the limit.
ArgumentosBusca ==
    [classe_codigo : {None, PInt(1116)},
     assunto_codigo : {None},
     movimento_codigo : {None},
     data_inicio : {None},
     data_fim : {None},
     tamanho : {Omitido, PInt(0 - MaxNegativo), PInt(LimiteTamanho + MaxExcesso)}]

\* What the server may answer: a success, a status below 400 that is not a
\* success, the status 400, another error status; each with any body.
DesfechosBusca ==
    {[t |-> "excecao"]}
    \cup {[t |-> "resposta", status |-> s, corpo |-> c] : s \in {200, 304, 400, 500}, c \in Corpos}

\* response.raise_for_status() raises HTTPError, a RequestException, for the
\* statuses 400 to 599.
StatusDeErro(s) == s >= 400 /\ s < 600

\* Variant: the fallback asks for the default number of records.
query_simples_padrao(a) == [size |-> DefaultTamanho, query |-> MatchAll]

\* query_simples (lines 258-261).
query_simples(a) == [size |-> Min(Tamanho(a), LimiteTamanho), query |-> MatchAll]

\* return response.json() inside the try (lines 272 and 279): the parsed body;
\* on a body that is not JSON the JSON error of requests, which the except
\* clause of line 281 catches only if it is a RequestException.
RetornaJson(corpo) ==
    IF corpo # CorpoInvalido THEN Return(corpo)
    ELSE IF json_erro_de_requests THEN Return(None)
    ELSE Raise

\* response.raise_for_status(); return response.json() (lines 278-279), and
\* the except clause (lines 281-286).
AposRaiseForStatus(d) ==
    IF StatusDeErro(d.status) THEN Return(None) ELSE RetornaJson(d.corpo)

InitBusca ==
    /\ bpc = "inicio"
    /\ tribunal \in Tribunais
    /\ pedidos = << >>
    /\ respostas = << >>
    /\ retorno = NaoChamado
    /\ json_erro_de_requests \in BOOLEAN
    /\ modulo = "datajud_2"
    /\ filtros \in ArgumentosBusca
    /\ query = NaoChamado
    /\ SemRequisicao
    /\ SemMetricas
    /\ SemResposta
    /\ coletas = << >>
    /\ hash_seed = 0
    /\ SemData
    /\ SemClassificacao

\* Lines 224-232: the tribunal is looked up, then the query is built.
PreparaBusca ==
    /\ bpc = "inicio"
    /\ IF TribunalConhecido(tribunal)
       THEN /\ query' = construir_query(modulo, filtros)
            /\ bpc' = "pedido"
            /\ UNCHANGED retorno
       ELSE /\ retorno' = Raise
            /\ bpc' = "fim"
            /\ UNCHANGED query
    /\ UNCHANGED <<modulo, filtros, tribunal, pedidos, respostas, json_erro_de_requests>>
    /\ UNCHANGED <<wvars, mvars, rvars, coletas, hash_seed>>
    /\ UNCHANGED dvars
    /\ UNCHANGED cvars

\* Lines 237-247 and 278-286: the query is posted; a status 400 leads to the
\* fallback, anything else ends the call.
PostaQuery ==
    /\ bpc = "pedido"
    /\ pedidos' = Append(pedidos, query)
    /\ \E d \in DesfechosBusca :
          /\ respostas' = Append(respostas, d)
          /\ IF d.t = "excecao"
             THEN retorno' = Return(None) /\ bpc' = "fim"
             ELSE IF d.status = 400
             THEN bpc' = "fallback" /\ UNCHANGED retorno
             ELSE retorno' = AposRaiseForStatus(d) /\ bpc' = "fim"
    /\ UNCHANGED <<tribunal, json_erro_de_requests>>
    /\ UNCHANGED <<wvars, mvars, rvars, coletas, hash_seed>>
    /\ UNCHANGED qvars
    /\ UNCHANGED dvars
    /\ UNCHANGED cvars

\* Lines 249-279: query_simples is posted; its body is returned when it is
\* answered with 200, otherwise raise_for_status raises on the first answer.
PostaFallback ==
    /\ bpc = "fallback"
    /\ pedidos' = Append(pedidos, query_simples(filtros))
    /\ \E d \in DesfechosBusca :
          /\ respostas' = Append(respostas, d)
          /\ retorno' = IF d.t = "excecao" THEN Return(None)
                        ELSE IF d.status = 200 THEN RetornaJson(d.corpo)
                        ELSE AposRaiseForStatus(respostas[1])
    /\ bpc' = "fim"
    /\ UNCHANGED <<tribunal, json_erro_de_requests>>
    /\ UNCHANGED <<wvars, mvars, rvars, coletas, hash_seed>>
    /\ UNCHANGED qvars
    /\ UNCHANGED dvars
    /\ UNCHANGED cvars

NextBusca == PreparaBusca \/ PostaQuery \/ PostaFallback

SpecBusca == InitBusca /\ [][NextBusca]_vars

-----------------------------------------------------------------------------
(* Specification of the metrics: a response of several records is           *)
(* classified and calcular_metricas_completas is called on the table.       *)

\* Records with relief and settlement 51 days apart; with a denied relief;
\* with a settlement and a judgment; with a granted relief; with nothing, not
\* even a filing date; with a settlement ten days before the relief and a last
\* update one day before the filing; and one on which the classifier fails.
HitsMetricas ==
    {Hit(FontePadrao(<<MovLiminar, MovHomologacao>>)),
     Hit(FontePadrao(<<MovIndeferimento>>)),
     Hit(FontePadrao(<<MovConciliacao, MovSentenca>>)),
     Hit(FontePadrao(<<MovDeferimento>>)),
     Hit(Fonte(None, DataPadraoAtualizacao, << >>)),
     Hit(Fonte(PStr(IsoDate(2024, 4, 6)), PStr(IsoDate(2024, 4, 5)),
               <<MovLiminar, MovConciliacao>>)),
     Hit([FontePadrao(<<MovSentenca>>) EXCEPT !.classe = None])}

InitMetricas ==
    /\ hits \in UNION {[1..n -> HitsMetricas] : n \in 0..MaxHits}
    /\ InicioDaColeta
    /\ SemQuery
    /\ SemData
    /\ SemOutros

\* self.calcular_metricas_completas(df_processos) (line 564).
CalculaMetricas ==
    /\ cpc = "fim"
    /\ metricas = NaoChamado
    /\ metricas' = calcular_metricas_completas(df)
    /\ UNCHANGED <<wvars, bvars, rvars, coletas, hash_seed>>
    /\ UNCHANGED qvars
    /\ UNCHANGED dvars
    /\ UNCHANGED cvars

NextMetricas == NextClassifica \/ CalculaMetricas

SpecMetricas == InitMetricas /\ [][NextMetricas]_vars

-----------------------------------------------------------------------------
(* Specification of repeated collections: coletar_processos_detalhados is   *)
(* called again and again on one JurimetriaRCESaude object, each time on a  *)
(* response of the API.                                                     *)

MaxColetas == 3     \* calls on one object

\* Records whose joined codes hold two names, a record with one movement, and a
\* record the classifier fails on.
HitDuasTutelas == Hit(FontePadrao(<<MovLiminar, MovDeferimento>>))
HitDoisAcordos == Hit(FontePadrao(<<MovHomologacao, MovConciliacao, MovHomologacao>>))
HitSemClasse == Hit([FontePadrao(<<MovLiminar>>) EXCEPT !.classe = None])

RespostasRepetidas ==
    {None,
     Resposta(<<HitDuasTutelas>>),
     Resposta(<<HitDoisAcordos, HitDuasTutelas, HitDoisAcordos>>),
     Resposta(<<HitDuasTutelas, HitSemClasse>>)}

InitRepete ==
    /\ resultado \in RespostasRepetidas
    /\ extraido = NaoChamado
    /\ hits = << >>
    /\ cpc = "inicio"
    /\ hit_i = 1
    /\ mov_i = 1
    /\ processo_base = None
    /\ tem_tutela = FALSE /\ tem_acordo = FALSE /\ tem_deferimento = FALSE
    /\ tem_indeferimento = FALSE /\ tem_sentenca = FALSE
    /\ movimentos_tutela = << >> /\ movimentos_acordo = << >>
    /\ data_primeira_tutela = None /\ data_primeiro_acordo = None
    /\ processos = << >>
    /\ df = NaoChamado
    /\ dados_coletados = NaoChamado
    /\ coletas = << >>
    /\ hash_seed \in Sementes
    /\ SemExtras
    /\ SemQuery
    /\ SemData

\* What a call that is over gave: the table it returned, or the exception that
\* left it.
Saida == IF cpc = "erro" THEN Raise ELSE Return(df)

\* The call is over and the object is called again on another response.  The
\* locals of the call that is over are dead: the next call sets each of them
\* before it reads it.
NovaColeta ==
    /\ cpc \in {"fim", "erro"}
    /\ Len(coletas) < MaxColetas
    /\ coletas' = Append(coletas, [resultado |-> resultado, saida |-> Saida])
    /\ resultado' \in RespostasRepetidas
    /\ cpc' = "inicio"
    /\ df' = NaoChamado
    /\ UNCHANGED <<hits, hit_i, mov_i, processo_base, flagvars, processos,
                   dados_coletados>>
    /\ UNCHANGED <<extraido, hash_seed, xvars>>
    /\ UNCHANGED qvars
    /\ UNCHANGED dvars

NextRepete == RecebeResultado \/ NextClassifica \/ NovaColeta

SpecRepete == InitRepete /\ [][NextRepete]_vars

-----------------------------------------------------------------------------
(* Properties of the query builder (checked under SpecQuery) *)

Construida == query # NaoChamado

SemFiltros(a) ==
    /\ a.classe_codigo = None /\ a.assunto_codigo = None /\ a.movimento_codigo = None
    /\ a.data_inicio = None /\ a.data_fim = None

TamanhoDado(a) == a.tamanho # Omitido

\* C1: when class, subject and movement code, dateFrom and dateTo are all
\* unset, the returned query is exactly {"match_all": {}} (not a bool/must with
\* an empty list), and the size is the default 10 when no size is given.
C1_SemFiltrosMatchAll ==
    (Construida /\ SemFiltros(filtros)) =>
        /\ query.query = MatchAll
        /\ (~TamanhoDado(filtros) => query.size = 10)

C1_Witness ==
    /\ Construida /\ SemFiltros(filtros) /\ ~TamanhoDado(filtros)
    /\ modulo = "datajud_2"
    /\ query = [size |-> 10, query |-> [match_all |-> << >>]]

\* C2: for every filter combination and every requested size above 100 the
\* returned request has size 100, the builder itself doing the clamping.
C2_TamanhoLimitadoACem ==
    (Construida /\ TamanhoDado(filtros) /\ filtros.tamanho.i > 100) => query.size = 100

\* C3: for every requested size below 1 (0 and negative values) the request
\* returned by the builder of jurimetria_datajud_2.py has size >= 1.
C3_TamanhoPositivo ==
    (Construida /\ modulo = "datajud_2" /\ TamanhoDado(filtros) /\ filtros.tamanho.i < 1)
        => query.size >= 1

\* The must list of a request: empty for match_all.
MustDe(q) == IF "bool" \in DOMAIN q.query THEN q.query.bool.must ELSE << >>

RECURSIVE Alvo(_)
\* The filter a clause is about, read off the clause's field paths.
Alvo(c) ==
    IF "term" \in DOMAIN c THEN
        (IF DOMAIN c.term = {"classe.codigo"} THEN "classe"
         ELSE IF DOMAIN c.term \subseteq {"assunto.codigo", "assuntos.codigo"} THEN "assunto"
         ELSE IF DOMAIN c.term = {"movimentos.codigo"} THEN "movimento"
         ELSE "outro")
    ELSE IF "nested" \in DOMAIN c THEN
        (IF c.nested.path = "assuntos" THEN "assunto"
         ELSE IF c.nested.path = "movimentos" THEN "movimento"
         ELSE "outro")
    ELSE IF "range" \in DOMAIN c THEN "data"
    ELSE IF "bool" \in DOMAIN c /\ "should" \in DOMAIN c.bool /\ c.bool.should # << >>
        THEN Alvo(c.bool.should[1])
    ELSE "outro"

\* The filters that are set (given a value other than None), in the fixed order.
FiltrosDefinidos(a) ==
    (IF a.classe_codigo # None THEN <<"classe">> ELSE << >>)
    \o (IF a.assunto_codigo # None THEN <<"assunto">> ELSE << >>)
    \o (IF a.movimento_codigo # None THEN <<"movimento">> ELSE << >>)
    \o (IF a.data_inicio # None \/ a.data_fim # None THEN <<"data">> ELSE << >>)

\* C4: the must list holds exactly one clause for each filter that is set among
\* class, subject, movement and date range, none for an unset filter, in the
\* order class, subject, movement, date range.
C4_UmaClausulaPorFiltro ==
    Construida =>
        [i \in 1..Len(MustDe(query)) |-> Alvo(MustDe(query)[i])] = FiltrosDefinidos(filtros)

IsTerm(c) == DOMAIN c = {"term"} /\ Cardinality(DOMAIN c.term) = 1
IsNested(c) == DOMAIN c = {"nested"} /\ DOMAIN c.nested = {"path", "query"}
IsRange(c) ==
    /\ DOMAIN c = {"range"}
    /\ Cardinality(DOMAIN c.range) = 1
    /\ \A k \in DOMAIN c.range : DOMAIN c.range[k] \subseteq {"gte", "lte"}
IsWrapper(c) ==
    /\ DOMAIN c = {"bool"}
    /\ DOMAIN c.bool = {"should", "minimum_should_match"}
    /\ c.bool.minimum_should_match = 1
    /\ \A i \in 1..Len(c.bool.should) :
           "range" \in DOMAIN c.bool.should[i] => IsRange(c.bool.should[i])

\* C5: every returned request has exactly the keys size and query; query is
\* {"match_all": {}} or {"bool": {"must": [...]}} with a non-empty must list;
\* every clause of the must list is a term clause, a nested clause with path
\* and query, a range clause bounded by gte/lte only, or a bool/should wrapper
\* with minimum_should_match = 1.
C5_FormaDaRequisicao ==
    Construida =>
        /\ DOMAIN query = {"size", "query"}
        /\ \/ query.query = MatchAll
           \/ /\ DOMAIN query.query = {"bool"}
              /\ DOMAIN query.query.bool = {"must"}
              /\ query.query.bool.must # << >>
              /\ \A i \in 1..Len(query.query.bool.must) :
                     LET c == query.query.bool.must[i] IN
                     IsTerm(c) \/ IsNested(c) \/ IsRange(c) \/ IsWrapper(c)

C5_Witness ==
    /\ Construida
    /\ Len(MustDe(query)) = 4
    /\ \E i \in 1..4 : IsWrapper(MustDe(query)[i]) /\ Alvo(MustDe(query)[i]) = "data"
    /\ filtros.data_inicio # None /\ filtros.data_fim = None

-----------------------------------------------------------------------------
(* Properties of the date sanitizer (checked under SpecData) *)

Tratada == data_ret # NaoChamado
Ausente == Return(None)

\* The string contains one of the tokens "2261", "2262", "2263" somewhere.
TemSentinela(s) == \E n \in 2261..2263 : Contains(s, ToDigits(n))

\* C6: the sanitizer returns absent (None) for the empty string and for None.
C6_VazioOuNoneAusente ==
    (Tratada /\ (data_str = None \/ data_str = PStr(<< >>))) => data_ret = Ausente

C6_Witness ==
    Tratada /\ data_str = PStr(<< >>) /\ data_ret = Ausente

\* C7: the sanitizer returns absent for every string that contains "2261",
\* "2262" or "2263" anywhere, also when the parsed year is inside [1990, 2030]
\* and the token is outside the year position.
C7_SentinelaAusente ==
    (Tratada /\ data_str.t = "str" /\ TemSentinela(data_str.s)) => data_ret = Ausente

C7_Witness ==
    /\ Tratada /\ data_ret = Ausente
    /\ data_origem.forma \in {"fracao", "compacta"}
    /\ data_origem.valida /\ data_origem.ano \in 1990..2030
    /\ TemSentinela(data_str.s)
    /\ ~TemSentinela(SubSeq(data_str.s, 1, 4))

\* The argument was written as a date-time of a calendar day.
EscritaComoData ==
    data_origem.forma \in {"data", "data_hora", "fracao", "compacta"} /\ data_origem.valida

\* C8: a string that parses as a date-time and contains no sentinel token is
\* accepted iff its year is in [1990, 2030] (1990 and 2030 accepted, 1989,
\* 2031 and 1985 absent); an unparseable string yields absent.
C8_AceitaSoAnosNoIntervalo ==
    (Tratada /\ data_str.t = "str" /\ ~TemSentinela(data_str.s)) =>
        IF EscritaComoData /\ data_origem.ano \in 1990..2030
        THEN data_ret = Return(data_str)
        ELSE data_ret = Ausente

C8_Witness ==
    /\ Tratada /\ EscritaComoData /\ ~TemSentinela(data_str.s)
    /\ data_origem.ano = 1990
    /\ data_ret = Return(data_str)

\* C9: the result is absent or the input string itself, unmodified, and
\* sanitizing an accepted result again returns it again.
C9_FiltraSemReformatar ==
    Tratada =>
        /\ data_ret = Ausente \/ (data_str.t = "str" /\ data_ret = Return(data_str))
        /\ data_ret2 # NaoChamado => data_ret2 = data_ret

C9_Witness ==
    /\ data_ret2 # NaoChamado
    /\ data_str = PStr(InicioDoDia(IsoDate(2024, 3, 15)))
    /\ data_ret2 = Return(data_str)

-----------------------------------------------------------------------------
(* Properties of the classifier (checked under SpecClassifica and SpecLote) *)

\* The records appended so far; processos[i] is the record of hits[i], since
\* an exception ends the whole loop.
Classificados == 1..Len(processos)

\* The movement list of a hit as the response carries it (none: empty).
MovimentosDe(hit) ==
    LET source == hit.d["_source"].d
    IN IF "movimentos" \in DOMAIN source THEN source.movimentos.l ELSE << >>

\* The positions of the movements that are objects.
Objetos(ms) == {k \in 1..Len(ms) : ms[k].t = "dict"}

TemCampo(m, key) == key \in DOMAIN m.d

\* The movement carries one of the configured relief codes.
EhTutela(m) ==
    /\ TemCampo(m, "codigo")
    /\ m.d.codigo.t = "int"
    /\ m.d.codigo.i \in CodigosTutela

\* The lower-cased name of a movement (no name: empty).
NomeDe(m) == IF TemCampo(m, "nome") THEN lower(m.d.nome.s) ELSE << >>

\* The date of a movement after the sanitizer: a string, or None if rejected.
DataSaneada(m) ==
    IF TemCampo(m, "dataHora") THEN tratar_data(m.d.dataHora).val ELSE None

\* One movement of the current record is scanned in this step.
PassoDeMovimento ==
    /\ cpc = "mov" /\ cpc' = "mov"
    /\ mov_i <= Len(MovimentosDe(hits[hit_i]))
    /\ mov_i' = mov_i + 1

MovimentoAtual == MovimentosDe(hits[hit_i])[mov_i]

C11_FlagPorCodigo ==
    \A i \in Classificados :
        LET ms == MovimentosDe(hits[i])
        IN processos[i].tem_tutela <=> \E k \in Objetos(ms) : EhTutela(ms[k])

C11_DataRejeitadaNaoAltera ==
    (/\ PassoDeMovimento
     /\ MovimentoAtual.t = "dict"
     /\ EhTutela(MovimentoAtual)
     /\ DataSaneada(MovimentoAtual) = None)
    => (tem_tutela' /\ data_primeira_tutela' = data_primeira_tutela)

\* C11: after classifying a record, tem_tutela is true iff at least one
\* movement of the record has a code in the configured relief codes; scanning
\* a relief movement whose date the sanitizer rejects sets the flag and leaves
\* data_primeira_tutela as it was.
C11_TutelaPorCodigo ==
    [](C11_FlagPorCodigo) /\ [][C11_DataRejeitadaNaoAltera]_vars

\* A record with relief by code 60 only, dated 2263: flag set, no first date;
\* its other movement has no relief code.
C11_Witness ==
    /\ cpc = "fim"
    /\ MovimentosDe(hits[1]) = <<MovSentenca, MovDeferimento>>
    /\ df.rows[1].tem_tutela
    /\ df.rows[1].data_primeira_tutela = None

\* The least of a set of sanitized dates in the order of Python strings.
Menor(datas) ==
    IF datas = {} THEN None
    ELSE CHOOSE d \in datas : \A e \in datas : ~StrLess(e.s, d.s)

DatasTutela(ms) ==
    {DataSaneada(ms[k]) : k \in {j \in Objetos(ms) : EhTutela(ms[j])}} \ {None}

TemTermoAcordo(m) == \E termo \in TermosAcordo : Contains(NomeDe(m), termo)

DatasAcordo(ms) ==
    {DataSaneada(ms[k]) : k \in {j \in Objetos(ms) : TemTermoAcordo(ms[j])}} \ {None}

\* C12: after classifying a record, data_primeira_tutela (resp.
\* data_primeiro_acordo) is the smallest sanitized date among the relief
\* (resp. settlement) movements whose date survives the sanitizer, and None
\* exactly when there is none; being a function of the set of those dates, it
\* does not depend on the order of the movements.
C12_PrimeiraDataEhAMenor ==
    \A i \in Classificados :
        LET ms == MovimentosDe(hits[i])
        IN /\ processos[i].data_primeira_tutela = Menor(DatasTutela(ms))
           /\ processos[i].data_primeiro_acordo = Menor(DatasAcordo(ms))
           /\ (processos[i].data_primeira_tutela = None <=> DatasTutela(ms) = {})
           /\ (processos[i].data_primeiro_acordo = None <=> DatasAcordo(ms) = {})

\* The smaller relief date comes last in the list and still wins; the
\* settlement dates come in the other order.
C12_Witness ==
    /\ cpc = "fim"
    /\ MovimentosDe(hits[1]) = <<MovConciliacao, MovIndeferimento, MovAcordoLiminar>>
    /\ df.rows[1].data_primeira_tutela = PStr(InicioDoDia(IsoDate(2023, 11, 20)))
    /\ df.rows[1].data_primeiro_acordo = PStr(InicioDoDia(IsoDate(2023, 11, 20)))

\* C13: tem_deferimento is true iff some movement's lower-cased name
\* contains "deferimento" and not "indeferimento"; tem_indeferimento is true
\* iff some movement's lower-cased name contains "indeferimento"; a record of
\* one movement never has both (the movement "Indeferimento do pedido de
\* tutela" alone gives denial without grant).
C13_DeferimentoEIndeferimento ==
    \A i \in Classificados :
        LET ms == MovimentosDe(hits[i])
            p == processos[i]
        IN /\ p.tem_deferimento <=>
                \E k \in Objetos(ms) :
                    /\ Contains(NomeDe(ms[k]), <<"d", "e", "f", "e", "r", "i", "m", "e", "n", "t", "o">>)
                    /\ ~Contains(NomeDe(ms[k]), <<"i", "n", "d", "e", "f", "e", "r", "i", "m", "e", "n", "t", "o">>)
           /\ p.tem_indeferimento <=>
                \E k \in Objetos(ms) : Contains(NomeDe(ms[k]), <<"i", "n", "d", "e", "f", "e", "r", "i", "m", "e", "n", "t", "o">>)
           /\ (Len(ms) = 1 => ~(p.tem_deferimento /\ p.tem_indeferimento))
           /\ (ms = <<MovIndeferimento>> => (p.tem_indeferimento /\ ~p.tem_deferimento))

\* Two different movements leave both flags true.
C13_Witness ==
    /\ cpc = "fim"
    /\ MovimentosDe(hits[1]) = <<MovIndeferimento, MovDeferimento>>
    /\ df.rows[1].tem_deferimento /\ df.rows[1].tem_indeferimento

\* C14: for every classified record, tutela_e_acordo equals tem_tutela AND
\* tem_acordo.
C14_TutelaEAcordo ==
    \A i \in Classificados :
        processos[i].tutela_e_acordo = (processos[i].tem_tutela /\ processos[i].tem_acordo)

\* One flag without the other: the conjunction is false.
C14_Witness ==
    /\ cpc = "fim"
    /\ Len(df.rows) = 1
    /\ df.rows[1].tem_tutela /\ ~df.rows[1].tem_acordo /\ ~df.rows[1].tutela_e_acordo

Presente(x) == x # None

\* Whole days from the instant written in a to the instant written in b
\* (rounded down), both sanitized date strings.
DiasInteiros(a, b) ==
    (Seconds(to_datetime(b.s)) - Seconds(to_datetime(a.s))) \div 86400

\* C15: for every classified record, dias_tutela_acordo is present iff both
\* data_primeira_tutela and data_primeiro_acordo are present, and then is the
\* settlement date minus the relief date in whole days, sign kept; relief on
\* 2024-01-10 and settlement on 2024-03-01 give 51.
C15_DiasTutelaAcordo ==
    \A i \in Classificados :
        LET p == processos[i]
            ambas == Presente(p.data_primeira_tutela) /\ Presente(p.data_primeiro_acordo)
        IN /\ Presente(p.dias_tutela_acordo) <=> ambas
           /\ ambas =>
                p.dias_tutela_acordo =
                    PInt(DiasInteiros(p.data_primeira_tutela, p.data_primeiro_acordo))
           /\ (/\ p.data_primeira_tutela = PStr(InicioDoDia(IsoDate(2024, 1, 10)))
               /\ p.data_primeiro_acordo = PStr(InicioDoDia(IsoDate(2024, 3, 1))))
              => p.dias_tutela_acordo = PInt(51)

\* C16: for every classified record, dias_tramitacao is present iff the
\* filing date and the last-update date are both present and both survive
\* the sanitizer, and then is the last-update date minus the filing date in
\* whole days; with either date missing or rejected it is absent.
C16_DiasTramitacao ==
    \A i \in Classificados :
        LET p == processos[i]
            source == hits[i].d["_source"]
            inicio == tratar_data(Get(source, "dataAjuizamento", None)).val
            fim == tratar_data(Get(source, "dataHoraUltimaAtualizacao", None)).val
            ambas == Presente(inicio) /\ Presente(fim)
        IN /\ Presente(p.dias_tramitacao) <=> ambas
           /\ ambas => p.dias_tramitacao = PInt(DiasInteiros(inicio, fim))

SeisFlagsFalsas(p) ==
    /\ ~p.tem_tutela /\ ~p.tem_acordo /\ ~p.tem_deferimento
    /\ ~p.tem_indeferimento /\ ~p.tem_sentenca /\ ~p.tutela_e_acordo

\* C17: a record whose movement list is empty or missing is classified with
\* the six boolean flags false, data_primeira_tutela and data_primeiro_acordo
\* absent and dias_tutela_acordo absent.
C17_SemMovimentos ==
    \A i \in Classificados :
        MovimentosDe(hits[i]) = << >> =>
            /\ SeisFlagsFalsas(processos[i])
            /\ processos[i].data_primeira_tutela = None
            /\ processos[i].data_primeiro_acordo = None
            /\ processos[i].dias_tutela_acordo = None

\* The record of a hit without the "movimentos" member.
C17_Witness ==
    /\ cpc = "fim"
    /\ ~TemCampo(hits[1].d["_source"], "movimentos")
    /\ TemCampo(hits[1].d["_source"], "numeroProcesso")
    /\ Len(df.rows) = 1
    /\ df.rows[1].total_movimentos = 0
    /\ SeisFlagsFalsas(df.rows[1])

\* Every flag that is set stays set in the step.
FlagsNaoDescem ==
    /\ tem_tutela => tem_tutela'
    /\ tem_acordo => tem_acordo'
    /\ tem_deferimento => tem_deferimento'
    /\ tem_indeferimento => tem_indeferimento'
    /\ tem_sentenca => tem_sentenca'

\* The list without its k-th element.
SemElemento(ms, k) == SubSeq(ms, 1, k - 1) \o SubSeq(ms, k + 1, Len(ms))

\* Every flag that the movements ms without their k-th one set is set in p.
FlagsContidas(ms, k, p) ==
    LET st == classifica(FlagsIniciais, SemElemento(ms, k))
    IN /\ st.tem_tutela => p.tem_tutela
       /\ st.tem_acordo => p.tem_acordo
       /\ st.tem_deferimento => p.tem_deferimento
       /\ st.tem_indeferimento => p.tem_indeferimento
       /\ st.tem_sentenca => p.tem_sentenca
       /\ (st.tem_tutela /\ st.tem_acordo) => p.tutela_e_acordo

C18_MaisUmMovimento ==
    \A i \in Classificados :
        \A k \in 1..Len(MovimentosDe(hits[i])) :
            FlagsContidas(MovimentosDe(hits[i]), k, processos[i])

\* C18: the flags are monotonic in the movement list: no step of the scan of
\* a record turns a flag from true to false, and every flag that is true for a
\* list L is true for L with one more movement, wherever it is added.
C18_FlagsMonotonicas ==
    [][PassoDeMovimento => FlagsNaoDescem]_vars /\ [](C18_MaisUmMovimento)

\* Two flags are set and the next movements set neither: they stay.
C18_Witness ==
    /\ cpc = "mov"
    /\ MovimentosDe(hits[hit_i]) = <<MovIndeferimento, MovSentenca, MovTexto>>
    /\ mov_i = 4
    /\ tem_tutela /\ tem_indeferimento /\ tem_sentenca

\* C19: the classifier never raises for malformed input (an entry that is no
\* dict, a missing code, name or date, a null name, a null class or
\* issuing-body object): the classification of the record completes.
C19_NuncaLanca == cpc # "erro"

\* C20: the classification of a response does not stop at a bad record: when
\* the call is over, there is one record for each of the n hits, and the
\* record of a hit is the one that hit gives alone.
C20_UmRegistroPorHit ==
    cpc \in {"fim", "erro"} =>
        /\ df.t = "DataFrame"
        /\ Len(df.rows) = Len(hits)
        /\ \A i \in 1..Len(hits) :
               df.rows[i] = processo_fim(processo_inicio(hits[i]).val.base,
                                    classifica(FlagsIniciais, MovimentosDe(hits[i])),
                                    Len(MovimentosDe(hits[i])))

\* Some movement of ms that is an object has one of the terms in its
\* lower-cased name.
AlgumNomeContem(ms, termos) ==
    \E k \in Objetos(ms) : \E termo \in termos : Contains(NomeDe(ms[k]), termo)

\* The movement m occurs in the list ms.
Ocorre(m, ms) == \E k \in 1..Len(ms) : ms[k] = m

\* C23: after classifying a record, tem_acordo is true iff some movement's
\* lower-cased name contains "acordo", "homologação", "conciliação" or
\* "mediação", and tem_sentenca is true iff some movement's lower-cased name
\* contains "sentença", "julgamento" or "decisão"; code and date play no part
\* and upper case in the name matches (a movement named "JULGAMENTO" with a
\* relief code and a rejected date is a ruling, "Audiência de MEDIAÇÃO" with
\* a non-numeric code and no date is a settlement).
C23_AcordoESentencaPorNome ==
    \A i \in Classificados :
        LET ms == MovimentosDe(hits[i])
            p == processos[i]
        IN /\ p.tem_acordo <=>
                AlgumNomeContem(ms, {<<"a", "c", "o", "r", "d", "o">>, <<"h", "o", "m", "o", "l", "o", "g", "a", "ç", "ã", "o">>,
                                     <<"c", "o", "n", "c", "i", "l", "i", "a", "ç", "ã", "o">>, <<"m", "e", "d", "i", "a", "ç", "ã", "o">>})
           /\ p.tem_sentenca <=>
                AlgumNomeContem(ms, {<<"s", "e", "n", "t", "e", "n", "ç", "a">>, <<"j", "u", "l", "g", "a", "m", "e", "n", "t", "o">>, <<"d", "e", "c", "i", "s", "ã", "o">>})
           /\ (Ocorre(MovJulgamento, ms) => p.tem_sentenca)
           /\ (Ocorre(MovMediacao, ms) => p.tem_acordo)

\* Settlement and ruling both found by upper-case names alone.
C23_Witness ==
    /\ cpc = "fim"
    /\ MovimentosDe(hits[1]) = <<MovJulgamento, MovMediacao>>
    /\ df.rows[1].tem_acordo /\ df.rows[1].tem_sentenca
    /\ df.rows[1].data_primeiro_acordo = None

-----------------------------------------------------------------------------
(* Properties of the filter clauses (checked under SpecQuery) *)

\* A filter is set when it is given a value other than None.
Definido(x) == x # None

Term(campo, valor) == [term |-> Obj1(campo, valor)]

\* The sequence xs has the element x.
Tem(xs, x) == \E i \in 1..Len(xs) : xs[i] = x

\* A bool query that is an OR over its should list: at least one alternative
\* must match, by an explicit minimum_should_match of 1 or, for a bool made of
\* a should list alone, by the rule of the search engine.
RequerUmaAlternativa(b) ==
    /\ "should" \in DOMAIN b
    /\ b.should # << >>
    /\ IF "minimum_should_match" \in DOMAIN b
       THEN DOMAIN b = {"should", "minimum_should_match"} /\ b.minimum_should_match = 1
       ELSE DOMAIN b = {"should"}

\* The clause c is an OR group with minimum_should_match = 1, one of whose
\* alternatives is a nested query on path that is itself an OR of the code as
\* a string and as a number.
GrupoAninhado(c, path, campo, codigo) ==
    /\ DOMAIN c = {"bool"}
    /\ DOMAIN c.bool = {"should", "minimum_should_match"}
    /\ c.bool.minimum_should_match = 1
    /\ \E i \in 1..Len(c.bool.should) :
           LET alt == c.bool.should[i] IN
           /\ DOMAIN alt = {"nested"}
           /\ alt.nested.path = path
           /\ DOMAIN alt.nested.query = {"bool"}
           /\ RequerUmaAlternativa(alt.nested.query.bool)
           /\ Tem(alt.nested.query.bool.should, Term(campo, PStr(ToDigits(codigo.i))))
           /\ Tem(alt.nested.query.bool.should, Term(campo, codigo))
    /\ \A i \in 1..Len(c.bool.should) :
           LET alt == c.bool.should[i] IN
           "nested" \in DOMAIN alt => RequerUmaAlternativa(alt.nested.query.bool)

\* C24: in the request of jurimetria_datajud_2, a subject (resp. movement)
\* filter that is set has a clause that is an OR group (bool/should with
\* minimum_should_match = 1) matching the code as a string and as a number
\* under the nested path, and for the subject also under the flat field
\* "assunto.codigo"; every alternative that is an OR group in turn requires
\* one of its own alternatives.
C24_GruposOu ==
    (Construida /\ modulo = "datajud_2") =>
        /\ Definido(filtros.assunto_codigo) =>
               \E i \in 1..Len(MustDe(query)) :
                   LET c == MustDe(query)[i] IN
                   /\ GrupoAninhado(c, "assuntos", "assuntos.codigo", filtros.assunto_codigo)
                   /\ Tem(c.bool.should,
                          Term("assunto.codigo", PStr(ToDigits(filtros.assunto_codigo.i))))
                   /\ Tem(c.bool.should, Term("assunto.codigo", filtros.assunto_codigo))
        /\ Definido(filtros.movimento_codigo) =>
               \E i \in 1..Len(MustDe(query)) :
                   GrupoAninhado(MustDe(query)[i], "movimentos", "movimentos.codigo",
                                 filtros.movimento_codigo)

\* The range clauses of the date filter of the request: the clause itself, or
\* the alternatives of its OR group.
FaixasDeData(q) ==
    LET must == MustDe(q)
        cs == {i \in 1..Len(must) : Alvo(must[i]) = "data"}
    IN UNION {IF "range" \in DOMAIN must[i] THEN {must[i]}
              ELSE {must[i].bool.should[j] : j \in 1..Len(must[i].bool.should)}
              : i \in cs}

\* The bounds object of a range clause.
Limites(c) == c.range[CHOOSE campo \in DOMAIN c.range : TRUE]

\* A date argument of the builder's contract: None or a date-time string
\* (the empty string is no date).
DataOuNone(x) == x = None \/ (x.t = "str" /\ x.s # << >>)

\* C25: when dateFrom or dateTo is set (each None or a date-time string),
\* the date-range clause has the bound gte iff dateFrom is set and lte iff
\* dateTo is set, with the given values and no other key; the same bounds are
\* on every candidate timestamp field, and several candidates are the
\* alternatives of one OR group.
C25_LimitesDaFaixa ==
    (/\ Construida
     /\ DataOuNone(filtros.data_inicio) /\ DataOuNone(filtros.data_fim)
     /\ (Definido(filtros.data_inicio) \/ Definido(filtros.data_fim))) =>
        /\ FaixasDeData(query) # {}
        /\ \A c \in FaixasDeData(query) :
               /\ IsRange(c)
               /\ ("gte" \in DOMAIN Limites(c)) <=> Definido(filtros.data_inicio)
               /\ ("lte" \in DOMAIN Limites(c)) <=> Definido(filtros.data_fim)
               /\ ("gte" \in DOMAIN Limites(c)) => Limites(c).gte = filtros.data_inicio
               /\ ("lte" \in DOMAIN Limites(c)) => Limites(c).lte = filtros.data_fim
        /\ \A i \in 1..Len(MustDe(query)) :
               Alvo(MustDe(query)[i]) = "data" =>
                   (IsRange(MustDe(query)[i]) \/ IsWrapper(MustDe(query)[i]))

\* Only dateFrom is set: three candidate fields in one OR group, each with
\* gte alone.
C25_Witness ==
    /\ Construida /\ modulo = "datajud_2"
    /\ filtros.data_inicio = PStr(InicioDoDia(IsoDate(2024, 1, 1)))
    /\ filtros.data_fim = None
    /\ Cardinality(FaixasDeData(query)) = 3
    /\ \A c \in FaixasDeData(query) : Limites(c) = [gte |-> filtros.data_inicio]

-----------------------------------------------------------------------------
(* Further properties of the classifier (checked under SpecClassifica) *)

\* The subject list of a hit as the response carries it (none: empty).
AssuntosDe(hit) ==
    LET source == hit.d["_source"].d
    IN IF "assuntos" \in DOMAIN source THEN source.assuntos.l ELSE << >>

\* The entry is an object with a value (not null, not the empty string) under
\* the key.
TemValor(a, key) ==
    /\ a.t = "dict"
    /\ key \in DOMAIN a.d
    /\ a.d[key] # None
    /\ a.d[key] # PStr(<< >>)

EntradaComCodigo(a) == TemValor(a, "codigo")
EntradaComNome(a) == TemValor(a, "nome")

\* The hit is the usual record but for its subject list, which is a list.
SoAssuntosVariam(hit) ==
    /\ hit.t = "dict" /\ DOMAIN hit.d = {"_source"}
    /\ LET source == hit.d["_source"].d IN
       /\ "assuntos" \in DOMAIN source
       /\ source.assuntos.t = "list"
       /\ Sem(source, "assuntos") = Sem(FontePadrao(<<MovLiminar>>), "assuntos")

\* C26: the subject list is flattened in source order: assuntos_codigos holds
\* the code (as text) of every entry that has a code, assuntos_nomes the name
\* of every entry that has a name, an entry with only one of the two gives
\* that one, and no subject entry keeps the record from being produced.
C26_AssuntosEmOrdem ==
    /\ (Len(hits) = 1 /\ SoAssuntosVariam(hits[1])) => cpc # "erro"
    /\ \A i \in Classificados :
           LET as == AssuntosDe(hits[i])
               codigos == SelectSeq(as, EntradaComCodigo)
               nomes == SelectSeq(as, EntradaComNome)
           IN /\ processos[i].assuntos_codigos =
                    PStr(Join([j \in 1..Len(codigos) |-> Fmt(codigos[j].d.codigo)]))
              /\ processos[i].assuntos_nomes =
                    PStr(Join([j \in 1..Len(nomes) |-> Fmt(nomes[j].d.nome)]))

\* C29: in every classified record the derived fields agree with the flags:
\* data_primeira_tutela present implies tem_tutela, data_primeiro_acordo
\* present implies tem_acordo, and dias_tutela_acordo present implies
\* tutela_e_acordo.
C29_DerivadosCoerentes ==
    \A i \in Classificados :
        LET p == processos[i] IN
        /\ Presente(p.data_primeira_tutela) => p.tem_tutela
        /\ Presente(p.data_primeiro_acordo) => p.tem_acordo
        /\ Presente(p.dias_tutela_acordo) => p.tutela_e_acordo

\* Relief on 2024-01-10 and settlement on 2024-03-01: the two first dates and
\* the interval are present, and so are the three flags.
C29_Witness ==
    /\ cpc = "fim"
    /\ MovimentosDe(hits[1]) = <<MovLiminar, MovHomologacao>>
    /\ Presente(df.rows[1].data_primeira_tutela)
    /\ Presente(df.rows[1].data_primeiro_acordo)
    /\ df.rows[1].dias_tutela_acordo = PInt(51)
    /\ df.rows[1].tutela_e_acordo

-----------------------------------------------------------------------------
(* Properties of the handling of a response (checked under SpecResposta) *)

\* The response is absent, or is an object without the key "hits".
RespostaSemHits ==
    resultado = None \/ (resultado.t = "dict" /\ "hits" \notin DOMAIN resultado.d)

\* C21: a response that is absent or lacks the hits key counts as zero
\* records and is no error: coletar_processos_detalhados returns an empty
\* DataFrame and extrair_informacoes an empty list, and neither raises.
C21_SemHitsZeroRegistros ==
    RespostaSemHits =>
        /\ cpc \in {"inicio", "fim"}
        /\ cpc = "fim" => df = DataFrame(<< >>)
        /\ extraido # NaoChamado => extraido = Return(<< >>)

\* Both functions have returned for an answer that is an object without
\* "hits".
C21_Witness ==
    /\ RespostaSemHits
    /\ resultado # None /\ DOMAIN resultado.d # {}
    /\ cpc = "fim" /\ df = DataFrame(<< >>)
    /\ extraido = Return(<< >>)

-----------------------------------------------------------------------------
(* Properties of repeated collections.                                      *)

\* The call in progress went through the records of its response and returned
\* one row for each.
ColetaCompleta ==
    /\ cpc = "fim"
    /\ df.t = "DataFrame"
    /\ ~SemHits(resultado)
    /\ Len(df.rows) = Len(hits)

-----------------------------------------------------------------------------
(* Properties of the request wrapper.                                       *)

\* The attempts of the call that did not end it with a body.
Falhas == {i \in 1..Len(historico) : ~Sucesso(historico[i])}

\* The attempts answered with status 200.
Com200 == {i \in 1..Len(historico) :
              historico[i].t = "resposta" /\ historico[i].status = 200}

\* The claim as it stands: when the call is over, the first attempt answered
\* with status 200 is the last attempt and its response is what is returned,
\* and None is returned only after three failed attempts.
C27_PrimeiroStatus200 ==
    rpc = "fim" =>
        /\ Len(historico) <= max_tentativas
        /\ \A i \in Com200 :
               i = Len(historico) /\ resultado = historico[i].corpo
        /\ resultado = None =>
               Len(historico) = max_tentativas /\ Falhas = 1..max_tentativas
        /\ esperas = Len(historico) - 1

\* What the call must look like once it is over: at most three attempts, all
\* but the last failed, a wait after each attempt but the last; the last
\* attempt either gave a body, which is returned, or is the third failure,
\* and then None is returned.
Encerrada ==
    /\ Len(historico) \in 1..max_tentativas
    /\ \A i \in 1..(Len(historico) - 1) : i \in Falhas
    /\ esperas = Len(historico) - 1
    /\ IF Len(historico) \in Falhas
       THEN Len(historico) = max_tentativas /\ resultado = None
       ELSE resultado = historico[Len(historico)].corpo

\* While the call runs: no more attempts than three, and between two
\* attempts exactly one wait.
EmCurso ==
    /\ Len(historico) <= max_tentativas
    /\ Falhas = 1..Len(historico)
    /\ resultado = NaoChamado
    /\ rpc = "tenta" => esperas = Len(historico) /\ Len(historico) < max_tentativas
    /\ rpc = "dorme" => esperas = Len(historico) - 1 /\ Len(historico) < max_tentativas

\* C27 (amended): _fazer_requisicao ends after at most three attempts; it
\* returns the parsed body of the first attempt that answers with status 200
\* and a body that parses as JSON, and attempts nothing after it; an answer of
\* status 200 whose body does not parse is a failed attempt like a non-200
\* status or an exception; after three failed attempts in a row it returns
\* None, and otherwise it returns None only when the parsed body is the JSON
\* null; it waits after each failed attempt but the third.
C27_TerminaEmTresTentativas ==
    /\ [](IF rpc = "fim" THEN Encerrada ELSE EmCurso)
    /\ <>(rpc = "fim")

\* Two failures, the first a 200 answer whose body is not JSON, each followed
\* by a wait, then a 200 answer whose body is returned.
C27_Witness ==
    /\ rpc = "fim"
    /\ Len(historico) = max_tentativas
    /\ historico[1] = [t |-> "resposta", status |-> 200, corpo |-> CorpoInvalido]
    /\ historico[2].t = "excecao"
    /\ Sucesso(historico[3])
    /\ resultado = Resposta(<<Hit(FontePadrao(<<MovLiminar>>))>>)
    /\ esperas = 2

-----------------------------------------------------------------------------
(* Properties of the search of jurimetria_datajud_2.                        *)

ComStatus(d, s) == d.t = "resposta" /\ d.status = s

\* The requests of a call on a known tribunal: the query built from the
\* arguments, and after a status 400, and only then, one match_all query of
\* the same size.
PedidosDaBusca ==
    /\ Len(pedidos) = Len(respostas)
    /\ Len(pedidos) \in 1..2
    /\ pedidos[1] = construir_query_2(filtros)
    /\ Len(pedidos) = 2 <=> ComStatus(respostas[1], 400)
    /\ Len(pedidos) = 2 =>
           pedidos[2] = [size |-> pedidos[1].size, query |-> [match_all |-> EmptyObj]]

TribunalDesconhecido ==
    ~TribunalConhecido(tribunal) => retorno = Raise /\ pedidos = << >>

\* The claim as it stands: the response of the fallback is returned iff it
\* answers 200, and every failure (the fallback failing, a first answer with
\* a status that is neither 200 nor 400, an exception of the transport) gives
\* None; nothing is raised for a known tribunal.
C28_FalhaDaNone ==
    bpc = "fim" =>
        /\ TribunalDesconhecido
        /\ TribunalConhecido(tribunal) =>
               /\ PedidosDaBusca
               /\ ~retorno.exc
               /\ ComStatus(respostas[1], 400) =>
                      IF ComStatus(respostas[2], 200)
                      THEN retorno.val = respostas[2].corpo
                      ELSE retorno.val = None
               /\ (respostas[1].t = "excecao"
                     \/ (~ComStatus(respostas[1], 200) /\ ~ComStatus(respostas[1], 400)))
                      => retorno.val = None

\* What the call gives for an answer it takes as a success: the parsed body,
\* and for a body that is not JSON None or the JSON error itself, as the
\* installed requests has it.
CorpoDe(d) ==
    IF d.corpo # CorpoInvalido THEN retorno = Return(d.corpo)
    ELSE IF json_erro_de_requests THEN retorno = Return(None)
    ELSE retorno = Raise

\* C28 (amended): in buscar_processos of jurimetria_datajud_2 an unknown
\* tribunal raises ValueError before any request is sent; a status-400 answer
\* to the filtered query triggers exactly one fallback request with a
\* match_all query of the same clamped size, whose parsed body is returned
\* iff it answers 200 with a body that parses; a fallback that fails, a first
\* answer with another status from 400 to 599 and an exception of the
\* transport give None instead of raising; a first answer with a status below
\* 400, 200 or not, is taken as a success and its parsed body is returned; a
\* body that does not parse gives None where the JSON error of requests is a
\* RequestException, and is raised otherwise.
C28_BuscaComFallback ==
    /\ bpc = "inicio" => pedidos = << >>
    /\ Len(pedidos) <= 2
    /\ bpc = "fim" =>
        /\ TribunalDesconhecido
        /\ TribunalConhecido(tribunal) =>
               /\ PedidosDaBusca
               /\ IF respostas[1].t = "excecao" THEN retorno = Return(None)
                  ELSE IF ComStatus(respostas[1], 400)
                  THEN IF ComStatus(respostas[2], 200) THEN CorpoDe(respostas[2])
                       ELSE retorno = Return(None)
                  ELSE IF respostas[1].status >= 400 THEN retorno = Return(None)
                  ELSE CorpoDe(respostas[1])

\* A request for more records than the limit is answered with 400, and the
\* fallback, which asks for the limit, with 200: its body is returned.
C28_Witness ==
    /\ bpc = "fim"
    /\ TribunalConhecido(tribunal)
    /\ filtros.classe_codigo = PInt(1116)
    /\ filtros.tamanho = PInt(LimiteTamanho + MaxExcesso)
    /\ ComStatus(respostas[1], 400)
    /\ pedidos[2] = [size |-> LimiteTamanho, query |-> [match_all |-> EmptyObj]]
    /\ ComStatus(respostas[2], 200)
    /\ retorno = Return(Resposta(<<Hit(FontePadrao(<<MovLiminar>>))>>))

-----------------------------------------------------------------------------
(* Properties of the metrics.                                               *)

\* The metrics of a table that is not empty have been computed.
MetricasDeUmLote == metricas # NaoChamado /\ df.rows # << >>

ContagensDe(m) ==
    {m.processos_com_tutela, m.processos_com_acordo, m.processos_tutela_e_acordo,
     m.processos_com_deferimento, m.processos_com_indeferimento,
     m.processos_com_sentenca}

\* C30: for a batch of classified records that is not empty, the count of
\* records with relief and settlement is at most the count with relief and at
\* most the count with settlement, every count lies between 0 and the number
\* of records, and no division by zero is attempted: the effectiveness is 0
\* when no record has a relief, and the rates of grant and denial are 0 when
\* no record has either.
C30_ContagensETaxas ==
    MetricasDeUmLote =>
        /\ ~metricas.exc
        /\ LET m == metricas.val
           IN /\ m.total_processos = Len(df.rows)
              /\ m.processos_tutela_e_acordo
                     <= Min(m.processos_com_tutela, m.processos_com_acordo)
              /\ \A n \in ContagensDe(m) : n \in 0..m.total_processos
              /\ m.processos_com_tutela = 0 => m.efetividade_tutela = PInt(0)
              /\ m.processos_com_deferimento + m.processos_com_indeferimento = 0 =>
                     /\ m.taxa_deferimento = PInt(0)
                     /\ m.taxa_indeferimento = PInt(0)

\* Three records, two with a settlement, none with a relief, a grant or a
\* denial: both denominators are 0.
C30_Witness ==
    /\ MetricasDeUmLote
    /\ ~metricas.exc
    /\ metricas.val.total_processos = 3
    /\ metricas.val.processos_com_acordo = 2
    /\ metricas.val.processos_com_tutela = 0
    /\ metricas.val.efetividade_tutela = PInt(0)
    /\ metricas.val.taxa_deferimento = PInt(0)
    /\ metricas.val.taxa_acordo = PCentesimos(6667)

====
